---- MODULE Spec2Model ----
(***************************************************************************)
(* A model of the Gail breast-cancer risk calculator                       *)
(* (backend/app/calculators/gail_model.py), of the questionnaire mapper    *)
(* (backend/app/utils/mapper.py) and of the service that drives them       *)
(* (backend/app/services/gail_service.py).                                 *)
(*                                                                         *)
(* Numbers.  The program computes in IEEE doubles; the model computes in   *)
(* fixed point over the integers, every operation rounding down:           *)
(*   - rates, attributable-risk factors, hazards and probabilities are     *)
(*     counted in units of 1/PScale (1e-8);                                *)
(*   - regression coefficients, linear predictors, relative-risk           *)
(*     multipliers and the relative risk are counted in units of 1/BScale  *)
(*     (1e-6);                                                             *)
(*   - ages and age boundaries are whole years, as every caller passes     *)
(*     them.                                                               *)
(* np.exp is computed by range reduction and a Taylor series, np.log is    *)
(* tabulated on the three values the hyperplasia multiplier can take.      *)
(* Python's indexing is kept: arrays are functions over 0..n-1, a negative *)
(* index counts from the end, and an index outside -n..n-1 raises          *)
(* IndexError.                                                             *)
(***************************************************************************)
EXTENDS Integers, Sequences, FiniteSets, TLC

VARIABLES
    calc,      \* the GailRiskCalculator instance: its tables and scratch arrays
    call,      \* the last call made on the calculator and how it ended
    ncalls,    \* calls made so far
    threads,   \* overlapping calls in progress on the shared instance
    svc,       \* the last request served by GailService.calculate_risk
    probe      \* the last application of a pure helper: its input and output

vars == <<calc, call, ncalls, threads, svc, probe>>

(***************************************************************************)
(* Fixed-point arithmetic                                                  *)
(***************************************************************************)
PScale == 10000 * 10000
BScale == 1000 * 1000
PHalf == 100 * 100
BHalf == 10 * 100

\* floor(a * b / PScale) without leaving 32 bits; 0 <= a, b < 4 * PScale
MulP(a, b) ==
    LET a1 == a \div PHalf
        a0 == a % PHalf
        b1 == b \div PHalf
        b0 == b % PHalf
    IN  a1 * b1 + ((a1 * b0 + a0 * b1 + ((a0 * b0) \div PHalf)) \div PHalf)

\* floor(a * b / BScale) without leaving 32 bits; 0 <= a, b < 46 * BScale
MulB(a, b) ==
    LET a1 == a \div BHalf
        a0 == a % BHalf
        b1 == b \div BHalf
        b0 == b % BHalf
    IN  a1 * b1 + ((a1 * b0 + a0 * b1 + ((a0 * b0) \div BHalf)) \div BHalf)

\* <<floor(a * b / c), (a * b) % c>> by long multiplication over the decimal
\* digits of a; 0 <= a, 0 <= b <= PScale, 0 < c <= PScale
RECURSIVE MulDivQR(_, _, _)
MulDivQR(a, b, c) ==
    IF a = 0 THEN <<0, 0>>
    ELSE LET h == MulDivQR(a \div 10, b, c)
             n == 10 * h[2] + (a % 10) * b
         IN  <<10 * h[1] + (n \div c), n % c>>

MulDiv(a, b, c) == MulDivQR(a, b, c)[1]

\* the terms x^k/k! of the exponential series, k = 1..ExpTerms, x in [0, 1)
ExpTerms == 12

RECURSIVE SeriesP(_, _, _)
SeriesP(x, k, term) ==
    IF k > ExpTerms \/ term = 0 THEN 0
    ELSE LET nxt == MulP(term, x) \div k
         IN  (IF k % 2 = 1 THEN -nxt ELSE nxt) + SeriesP(x, k + 1, nxt)

RECURSIVE SeriesB(_, _, _)
SeriesB(x, k, term) ==
    IF k > ExpTerms \/ term = 0 THEN 0
    ELSE LET nxt == MulB(term, x) \div k
         IN  nxt + SeriesB(x, k + 1, nxt)

\* e^-n in units of 1/PScale, n >= 0
RECURSIVE EPowNegP(_)
EPowNegP(n) == IF n = 0 THEN PScale ELSE MulP(EPowNegP(n - 1), 36787944)

\* e^n in units of 1/BScale, -20 <= n <= 7
RECURSIVE EPowB(_)
EPowB(n) ==
    IF n = 0 THEN BScale
    ELSE IF n > 0 THEN MulB(EPowB(n - 1), 2718282)
    ELSE MulB(EPowB(n + 1), 367879)

\* np.exp(-x) for a hazard-times-width x >= 0 in units of 1/PScale
ExpNegP(x) ==
    LET n == x \div PScale
        f == x % PScale
        e == PScale + SeriesP(f, 1, PScale)
    IN  IF n > 20 THEN 0 ELSE MulP(EPowNegP(n), e)

\* np.exp(x) for a linear predictor x in units of 1/BScale, x < 7 * BScale
ExpB(x) ==
    LET n == x \div BScale
        f == x % BScale
        e == BScale + SeriesB(f, 1, BScale)
    IN  IF n < -20 THEN 0 ELSE MulB(EPowB(n), e)

\* np.log(rhyp) for the three multipliers _calculate_risk_api can pass,
\* the multiplier in hundredths, the logarithm in units of 1/BScale
LogHyp(rhyp) ==
    CASE rhyp = 182 -> 598837
      [] rhyp = 93 -> -72571
      [] rhyp = 100 -> 0

\* the value of F at v, with v evaluated once
With(v, F(_)) == CHOOSE r \in {F(y) : y \in {v}} : TRUE

(***************************************************************************)
(* Python indexing                                                         *)
(***************************************************************************)
\* the position an index i selects in an axis of length n: a negative index
\* counts from the end; -1 stands for IndexError
PyIdx(i, n) ==
    IF 0 <= i /\ i < n THEN i
    ELSE IF -n <= i /\ i < 0 THEN i + n
    ELSE -1

Zeros(n) == [i \in 0..(n - 1) |-> 0]

(***************************************************************************)
(* The statistical tables of GailRiskCalculator.initialize                 *)
(***************************************************************************)
NumCovPattInGailModel == 216

t_values == <<20, 25, 30, 35, 40, 45, 50, 55, 60, 65, 70, 75, 80, 85, 90>>

rmu2_col0 == <<49300, 53100, 62500, 82500, 130700, 218100, 365500, 585200, 943900, 1502800, 2383900, 3883200, 6682800, 14490800>>
rmu2_col1 == <<74354, 101698, 145937, 215933, 315077, 448779, 632281, 963037, 1471818, 2116304, 3266035, 4564087, 6835185, 13271262>>
rmu2_col2 == <<43700, 53300, 70000, 89700, 116300, 170200, 264600, 421600, 696000, 1086700, 1685800, 2515600, 4186600, 8947600>>
rmu2_col3 == <<44120, 52540, 67460, 90920, 125340, 195700, 329840, 546220, 910350, 1418540, 2259350, 3611460, 6136260, 14206630>>
rmu2_col6 == <<21065, 19264, 24444, 31790, 47326, 80027, 121748, 209984, 343689, 609741, 1066453, 2014868, 3799080, 9833390>>
rmu2_col7 == <<17359, 29581, 22832, 36324, 59063, 108608, 186000, 321660, 471940, 853533, 1243351, 2023020, 3772550, 10614912>>
rmu2_col8 == <<22912, 26299, 31484, 39447, 64762, 117020, 180938, 261417, 448333, 739367, 1223306, 2112706, 3793695, 8513852>>
rmu2_col9 == <<56351, 36964, 101991, 123401, 209834, 298293, 540245, 959147, 1631547, 2015223, 2735484, 5044700, 7226203, 14584450>>
rmu2_col10 == <<46550, 60047, 85106, 147827, 193149, 386662, 492493, 817707, 863820, 1897466, 2925757, 3840898, 5286958, 7474572>>
rmu2_col11 == <<21263, 24217, 30155, 36905, 54300, 89386, 151517, 257467, 432437, 741962, 1325177, 2229143, 4174655, 8748580>>

\* columns 4 and 5 are copies of columns 1 and 2
rmu2_columns ==
    <<rmu2_col0, rmu2_col1, rmu2_col2, rmu2_col3, rmu2_col1, rmu2_col2,
      rmu2_col6, rmu2_col7, rmu2_col8, rmu2_col9, rmu2_col10, rmu2_col11>>

rlan2_col0 == <<1000, 7600, 26600, 66100, 126500, 186600, 221100, 272100, 334800, 392300, 417800, 443900, 442100, 410900>>
rlan2_col1 == <<2696, 11295, 31094, 67639, 119444, 187394, 241504, 291112, 310127, 366560, 393132, 408951, 396793, 363712>>
rlan2_col2 == <<2000, 7100, 19700, 43800, 81100, 130700, 157400, 185700, 215100, 251200, 284600, 275700, 252300, 203900>>
rlan2_col3 == <<1220, 7410, 22970, 56490, 116450, 195250, 261540, 302790, 367570, 420290, 473080, 494250, 479760, 401060>>
rlan2_col6 == <<406, 4594, 18828, 49293, 91360, 147154, 142128, 197095, 167475, 182158, 183448, 191991, 223337, 224732>>
rlan2_col7 == <<0, 9948, 28704, 54529, 115221, 185925, 260629, 322175, 400696, 352172, 359304, 358930, 353851, 205157>>
rlan2_col8 == <<750, 8107, 22749, 54979, 112940, 181387, 222367, 268031, 289122, 253442, 245716, 228662, 181480, 175088>>
rlan2_col9 == <<4508, 9857, 33997, 85259, 166856, 255270, 332177, 537300, 523781, 558173, 567742, 651341, 388946, 294906>>
rlan2_col10 == <<0, 7153, 28880, 60225, 75558, 76641, 189312, 236558, 284393, 292092, 233040, 203629, 148268, 101225>>
rlan2_col11 == <<1236, 5953, 18432, 45468, 79127, 104846, 137247, 149547, 164675, 147836, 121601, 106766, 137610, 66158>>

rlan2_columns ==
    <<rlan2_col0, rlan2_col1, rlan2_col2, rlan2_col3, rlan2_col1, rlan2_col2,
      rlan2_col6, rlan2_col7, rlan2_col8, rlan2_col9, rlan2_col10, rlan2_col11>>

bet2_col0 == <<-749482, 10808, 94010, 529264, 218626, 958303, -288042, -190811>>
bet2_col1 == <<-345717, 33470, 267253, 182212, 0, 475724, -111941, 0>>
asian_beta == <<0, 0, 74993, 552636, 276383, 791856, 0, 0>>

\* column 2 copies column 0, columns 3..5 copy 0..2, columns 6..11 are asian_beta
bet2_columns ==
    <<bet2_col0, bet2_col1, bet2_col0, bet2_col0, bet2_col1, bet2_col0,
      asian_beta, asian_beta, asian_beta, asian_beta, asian_beta, asian_beta>>

\* (1 - attributable risk), row 0 for ages below 50 and row 1 for 50 and above
rf2_row0 ==
    <<57884130, 72949880, 57884130, PScale, PScale, PScale,
      47519806, 47519806, 47519806, 47519806, 47519806, 47519806, PScale>>
rf2_row1 ==
    <<57884130, 74397137, 57884130, PScale, PScale, PScale,
      50316402, 50316402, 50316402, 50316402, 50316402, 50316402, PScale>>

(***************************************************************************)
(* GailRiskCalculator: construction                                        *)
(***************************************************************************)
\* __init__: every array zeroed, not initialized
NewCalculator ==
    [ bet2 |-> [i \in 0..7 |-> Zeros(12)],
      bet |-> Zeros(8),
      rf |-> Zeros(2),
      rf2 |-> [i \in 0..1 |-> Zeros(13)],
      abs |-> Zeros(NumCovPattInGailModel),
      rlan |-> Zeros(14),
      rlan2 |-> [i \in 0..13 |-> Zeros(12)],
      rmu |-> Zeros(14),
      rmu2 |-> [i \in 0..13 |-> Zeros(12)],
      sumb |-> Zeros(NumCovPattInGailModel),
      sumbb |-> Zeros(NumCovPattInGailModel),
      t |-> Zeros(15),
      is_initialized |-> FALSE ]

\* initialize: the tables are assigned, the scratch arrays are left alone
initialize(c) ==
    [c EXCEPT
        !.t = [i \in 0..14 |-> t_values[i + 1]],
        !.rmu2 = [i \in 0..13 |-> [col \in 0..11 |-> rmu2_columns[col + 1][i + 1]]],
        !.rlan2 = [i \in 0..13 |-> [col \in 0..11 |-> rlan2_columns[col + 1][i + 1]]],
        !.bet2 = [i \in 0..7 |-> [col \in 0..11 |-> bet2_columns[col + 1][i + 1]]],
        !.rf2 = [i \in 0..1 |->
                    [col \in 0..12 |-> IF i = 0 THEN rf2_row0[col + 1]
                                         ELSE rf2_row1[col + 1]]],
        !.is_initialized = TRUE]

\* create_calculator
create_calculator == initialize(NewCalculator)

(***************************************************************************)
(* The covariate matrix r8iTox2 built by _calculate_risk                   *)
(***************************************************************************)
\* DesignWrites with the outer loop of column 4 one block short
DesignWritesShortLoop(col) ==
    CASE col = 1 ->
           {<<k, 0>> : k \in 0..107} \cup {<<108 + k, 1>> : k \in 0..107}
      [] col = 2 ->
           UNION {{<<(j - 1) * 108 + v * 36 + k - 1, v>> : v \in 0..2} :
                     <<j, k>> \in (1..2) \X (1..36)}
      [] col = 3 ->
           UNION {{<<(j - 1) * 36 + v * 12 + k - 1, v>> : v \in 0..2} :
                     <<j, k>> \in (1..6) \X (1..12)}
      [] col = 4 ->
           UNION {{<<(j - 1) * 12 + v * 3 + k - 1, v>> : v \in 0..3} :
                     <<j, k>> \in (1..17) \X (1..3)}
      [] col = 5 ->
           UNION {{<<(j - 1) * 3 + v, v>> : v \in 0..2} : j \in 1..72}

\* the cells the block loops assign in columns 1..5, as <<row, value>>
DesignWrites(col) ==
    CASE col = 1 ->
           {<<k, 0>> : k \in 0..107} \cup {<<108 + k, 1>> : k \in 0..107}
      [] col = 2 ->
           UNION {{<<(j - 1) * 108 + v * 36 + k - 1, v>> : v \in 0..2} :
                     <<j, k>> \in (1..2) \X (1..36)}
      [] col = 3 ->
           UNION {{<<(j - 1) * 36 + v * 12 + k - 1, v>> : v \in 0..2} :
                     <<j, k>> \in (1..6) \X (1..12)}
      [] col = 4 ->
           UNION {{<<(j - 1) * 12 + v * 3 + k - 1, v>> : v \in 0..3} :
                     <<j, k>> \in (1..18) \X (1..3)}
      [] col = 5 ->
           UNION {{<<(j - 1) * 3 + v, v>> : v \in 0..2} : j \in 1..72}

\* a column after its loop: the value assigned to the row, or the 0 of np.zeros
DesignColumn(col) ==
    LET w == DesignWrites(col)
    IN  [k \in 0..(NumCovPattInGailModel - 1) |->
            IF \E p \in w : p[1] = k
            THEN (CHOOSE p \in w : p[1] = k)[2]
            ELSE 0]

\* the columns 0..5 of row k that some loop assigns; column 0 is assigned for
\* every k in range(n)
WrittenColumns ==
    [k \in 0..(NumCovPattInGailModel - 1) |->
        {0} \cup {col \in 1..5 : \E p \in DesignWrites(col) : p[1] = k}]

\* r8iTox2 with column 6 the product of columns 2 and 3
r8iTox2MenarcheBiopsy ==
    [k \in 0..(NumCovPattInGailModel - 1) |->
        [j \in 0..8 |->
            CASE j \in {0, 8} -> 1
              [] j \in 1..5 -> DesignColumn(j)[k]
              [] j = 6 -> DesignColumn(2)[k] * DesignColumn(3)[k]
              [] j = 7 -> DesignColumn(4)[k] * DesignColumn(5)[k]]]

\* the whole matrix: column 0 and 8 are 1, column 6 is the product of columns
\* 1 and 3, column 7 the product of columns 4 and 5
r8iTox2 ==
    LET c1 == DesignColumn(1)
        c2 == DesignColumn(2)
        c3 == DesignColumn(3)
        c4 == DesignColumn(4)
        c5 == DesignColumn(5)
    IN  [k \in 0..(NumCovPattInGailModel - 1) |->
            [j \in 0..8 |->
                CASE j = 0 -> 1
                  [] j = 1 -> c1[k]
                  [] j = 2 -> c2[k]
                  [] j = 3 -> c3[k]
                  [] j = 4 -> c4[k]
                  [] j = 5 -> c5[k]
                  [] j = 6 -> c1[k] * c3[k]
                  [] j = 7 -> c4[k] * c5[k]
                  [] j = 8 -> 1]]

\* PatternIndex with the block size of the first-birth factor off by one
PatternIndexWrongBlock(AgeIndicator, MenarcheAge, NumberOfBiopsy, FirstLiveBirthAge, FirstDegRelatives) ==
    AgeIndicator * 108 + MenarcheAge * 36 + NumberOfBiopsy * 12
        + FirstLiveBirthAge * 4 + FirstDegRelatives + 1

\* the pattern index ilev
PatternIndex(AgeIndicator, MenarcheAge, NumberOfBiopsy, FirstLiveBirthAge, FirstDegRelatives) ==
    AgeIndicator * 108 + MenarcheAge * 36 + NumberOfBiopsy * 12
        + FirstLiveBirthAge * 3 + FirstDegRelatives + 1

(***************************************************************************)
(* Input validation and cleaning                                           *)
(***************************************************************************)
\* validate with < for <= in the comparison of the two ages
validateAllowsEqualAges(params) ==
    /\ 20 <= params.current_age /\ params.current_age <= 85
    /\ ~(params.projection_age < params.current_age)
    /\ ~(params.projection_age > 90)

\* GailInputParams.validate: TRUE when the ages are accepted
validate(params) ==
    /\ 20 <= params.current_age /\ params.current_age <= 85
    /\ ~(params.projection_age <= params.current_age)
    /\ ~(params.projection_age > 90)

\* clean_biopsy_inputs with 30 itself left out of the recoded counts
clean_biopsy_inputsBelow30(ever_had_biopsy, num_biopsy, hyperplasia) ==
    LET ever == IF ever_had_biopsy = 99 THEN 0 ELSE ever_had_biopsy
        num1 == IF ever = 1 /\ num_biopsy = 99 THEN 1
                ELSE IF ever = 0 THEN 0
                ELSE num_biopsy
        num2 == IF 1 < num1 /\ num1 < 30 THEN 2 ELSE num1
        hyp == IF ever = 0 THEN 99 ELSE hyperplasia
    IN  <<ever, num2, hyp>>

\* clean_biopsy_inputs: <<ever_had_biopsy, num_biopsy, hyperplasia>> cleaned
clean_biopsy_inputs(ever_had_biopsy, num_biopsy, hyperplasia) ==
    LET ever == IF ever_had_biopsy = 99 THEN 0 ELSE ever_had_biopsy
        num1 == IF ever = 1 /\ num_biopsy = 99 THEN 1
                ELSE IF ever = 0 THEN 0
                ELSE num_biopsy
        num2 == IF 1 < num1 /\ num1 <= 30 THEN 2 ELSE num1
        hyp == IF ever = 0 THEN 99 ELSE hyperplasia
    IN  <<ever, num2, hyp>>

\* clean_relatives without the cap for the Asian subgroups
clean_relativesNoCap(first_deg_relatives, race) ==
    IF first_deg_relatives = 0 \/ first_deg_relatives = 99 THEN 0
    ELSE IF 2 <= first_deg_relatives /\ first_deg_relatives <= 31 THEN 2
    ELSE first_deg_relatives

\* the relative-count cleaning of _calculate_risk_api
clean_relatives(first_deg_relatives, race) ==
    IF first_deg_relatives = 0 \/ first_deg_relatives = 99 THEN 0
    ELSE IF 2 <= first_deg_relatives /\ first_deg_relatives <= 31 /\ race < 7 THEN 2
    ELSE IF first_deg_relatives >= 2 /\ race >= 7 THEN 1
    ELSE first_deg_relatives

\* real_hyp with the multipliers of yes and no exchanged
real_hypExchanged(hyperplasia) ==
    IF hyperplasia = 1 THEN 93
    ELSE IF hyperplasia = 0 THEN 182
    ELSE 100

\* the hyperplasia multiplier of _calculate_risk_api, in hundredths
real_hyp(hyperplasia) ==
    IF hyperplasia = 1 THEN 182
    ELSE IF hyperplasia = 0 THEN 93
    ELSE 100

\* _calculate_risk_api up to its call of _calculate_risk: the arguments and
\* locals of that call, about to run its first block
calculate_risk_api(risk_index, params) ==
    LET cleaned == clean_biopsy_inputs(params.ever_had_biopsy,
                                       params.number_of_biopsy, params.hyperplasia)
    IN  [ riskindex |-> risk_index,
          CurrentAge |-> params.current_age,
          ProjectionAge |-> params.projection_age,
          AgeIndicator |-> IF params.current_age >= 50 THEN 1 ELSE 0,
          NumberOfBiopsy |-> cleaned[2],
          MenarcheAge |-> params.menarche_age,
          FirstLiveBirthAge |-> params.first_live_birth_age,
          EverHadBiopsy |-> cleaned[1],
          FirstDegRelatives |-> clean_relatives(params.first_deg_relatives, params.race),
          ihyp |-> cleaned[3],
          rhyp |-> real_hyp(cleaned[3]),
          irace |-> params.race,
          ni |-> 0, ns |-> 0, incr |-> 0, cindx |-> 0, ilev |-> 0,
          pc |-> "select_beta", err |-> "none", ret |-> 0 ]

(***************************************************************************)
(* _calculate_risk, block by block.  A block takes and returns             *)
(* [c |-> the calculator, f |-> the frame of the call].                    *)
(***************************************************************************)
Raise(x, error) == [x EXCEPT !.f.pc = "raised", !.f.err = error]

\* first-breach search for the band of the current age (ti < t[i-1])
FindNi(t, ti) ==
    LET hits == {i \in 1..15 : ti < t[i - 1]}
    IN  IF hits = {} THEN 0
        ELSE (CHOOSE i \in hits : \A j \in hits : i <= j) - 1

\* FindNs with the strict comparison of FindNi
FindNsStrict(t, ts) ==
    LET hits == {i \in 1..15 : ts < t[i - 1]}
    IN  IF hits = {} THEN 0
        ELSE (CHOOSE i \in hits : \A j \in hits : i <= j) - 1

\* first-breach search for the band of the projection age (ts <= t[i-1])
FindNs(t, ts) ==
    LET hits == {i \in 1..15 : ts <= t[i - 1]}
    IN  IF hits = {} THEN 0
        ELSE (CHOOSE i \in hits : \A j \in hits : i <= j) - 1

\* SelectBeta with the recode applied whatever the race
SelectBetaRecodeAnyRace(x) ==
    LET c == x.c
        f == x.f
        col == PyIdx(f.irace - 1, 12)
        recode == f.MenarcheAge = 2
    IN  IF col = -1 THEN Raise(x, "IndexError")
        ELSE [ c |-> [c EXCEPT !.bet = [i \in 0..7 |-> c.bet2[i][col]]],
               f |-> [f EXCEPT
                        !.MenarcheAge = IF recode THEN 1 ELSE @,
                        !.FirstLiveBirthAge = IF recode THEN 0 ELSE @,
                        !.ni = FindNi(c.t, f.CurrentAge),
                        !.ns = FindNs(c.t, f.ProjectionAge),
                        !.pc = "load_rates"] ]

\* lines 514-540: race-specific beta, African-American recode, age bands
SelectBeta(x) ==
    LET c == x.c
        f == x.f
        col == PyIdx(f.irace - 1, 12)
        recode == f.irace = 2 /\ f.MenarcheAge = 2
    IN  IF col = -1 THEN Raise(x, "IndexError")
        ELSE [ c |-> [c EXCEPT !.bet = [i \in 0..7 |-> c.bet2[i][col]]],
               f |-> [f EXCEPT
                        !.MenarcheAge = IF recode THEN 1 ELSE @,
                        !.FirstLiveBirthAge = IF recode THEN 0 ELSE @,
                        !.ni = FindNi(c.t, f.CurrentAge),
                        !.ns = FindNs(c.t, f.ProjectionAge),
                        !.pc = "load_rates"] ]

\* LoadRates without the override of lines 552-554
LoadRatesOwnPair(x) ==
    LET c == x.c
        f == x.f
        incr == IF f.riskindex = 2 /\ f.irace < 7 THEN 3 ELSE 0
        cindx == incr + f.irace - 1
        col == PyIdx(cindx, 12)
        rfcol == PyIdx(incr + f.irace - 1, 13)
    IN  IF col = -1 THEN Raise(x, "IndexError")
        ELSE [ c |-> [c EXCEPT
                        !.rmu = [i \in 0..13 |-> c.rmu2[i][col]],
                        !.rlan = [i \in 0..13 |-> c.rlan2[i][col]],
                        !.rf = [i \in 0..1 |-> c.rf2[i][rfcol]]],
               f |-> [f EXCEPT !.incr = incr, !.cindx = cindx, !.pc = "predictors"] ]

\* lines 542-554: the column of the rate tables and of the attributable risk
LoadRates(x) ==
    LET c == x.c
        f == x.f
        incr == IF f.riskindex = 2 /\ f.irace < 7 THEN 3 ELSE 0
        cindx == incr + f.irace - 1
        col == PyIdx(cindx, 12)
        rfcol == PyIdx(incr + f.irace - 1, 13)
        shared == f.riskindex = 2 /\ f.irace >= 7
    IN  IF col = -1 THEN Raise(x, "IndexError")
        ELSE [ c |-> [c EXCEPT
                        !.rmu = [i \in 0..13 |-> c.rmu2[i][col]],
                        !.rlan = [i \in 0..13 |-> c.rlan2[i][col]],
                        !.rf = [i \in 0..1 |->
                                  IF shared THEN c.rf2[i][12] ELSE c.rf2[i][rfcol]]],
               f |-> [f EXCEPT !.incr = incr, !.cindx = cindx, !.pc = "predictors"] ]

\* AverageOverride with the relatives left as supplied
AverageOverrideKeepsRelatives(f) ==
    IF f.riskindex >= 2
    THEN [f EXCEPT !.MenarcheAge = 0, !.NumberOfBiopsy = 0,
                   !.FirstLiveBirthAge = 0, !.rhyp = 100]
    ELSE f

\* lines 556-561: in average mode the factors are set to category 0 and the
\* multiplier to 1.0
AverageOverride(f) ==
    IF f.riskindex >= 2
    THEN [f EXCEPT !.MenarcheAge = 0, !.NumberOfBiopsy = 0,
                   !.FirstLiveBirthAge = 0, !.FirstDegRelatives = 0,
                   !.rhyp = 100]
    ELSE f

\* lines 603-607: sumb[i], the coefficients times row i of the matrix
RawPredictor(c, i) ==
    c.bet[0] * r8iTox2[i][0] + c.bet[1] * r8iTox2[i][1]
  + c.bet[2] * r8iTox2[i][2] + c.bet[3] * r8iTox2[i][3]
  + c.bet[4] * r8iTox2[i][4] + c.bet[5] * r8iTox2[i][5]
  + c.bet[6] * r8iTox2[i][6] + c.bet[7] * r8iTox2[i][7]

\* CenteredPredictor added to what sumbb[i] held (+= for =)
CenteredPredictorAccumulates(c, sumb, i) ==
    c.sumbb[i] + (IF i + 1 <= 108 THEN sumb[i] - c.bet[0]
                  ELSE sumb[i] - c.bet[0] - c.bet[1])

\* CenteredPredictor with only the intercept subtracted in both halves
CenteredPredictorInterceptOnly(c, sumb, i) ==
    sumb[i] - c.bet[0]

\* lines 609-612: the value assigned to sumbb[i], given the new sumb
CenteredPredictor(c, sumb, i) ==
    IF i + 1 <= 108 THEN sumb[i] - c.bet[0]
    ELSE sumb[i] - c.bet[0] - c.bet[1]

\* lines 556-612: average-mode override, pattern index, sumb and sumbb
Predictors(x) ==
    LET c == x.c
        g == AverageOverride(x.f)
        ilev == PatternIndex(g.AgeIndicator, g.MenarcheAge, g.NumberOfBiopsy,
                             g.FirstLiveBirthAge, g.FirstDegRelatives)
        sumb == [i \in 0..(NumCovPattInGailModel - 1) |-> RawPredictor(c, i)]
        sumbb == [i \in 0..(NumCovPattInGailModel - 1) |->
                    CenteredPredictor(c, sumb, i)]
    IN  [ c |-> [c EXCEPT !.sumb = sumb, !.sumbb = sumbb],
          f |-> [g EXCEPT !.ilev = ilev, !.pc = "scale"] ]

\* ScaleIncidence with the scaling applied to the selected table column too
ScaleIncidenceWritesTable(x) ==
    LET c == x.c
        col == PyIdx(x.f.cindx, 12)
        Scaled(j, v) == IF j + 1 <= 6 THEN MulP(v, c.rf[0]) ELSE MulP(v, c.rf[1])
    IN  [ c |-> [c EXCEPT
                   !.rlan = [j \in 0..13 |-> Scaled(j, c.rlan[j])],
                   !.rlan2 = [j \in 0..13 |->
                                [c.rlan2[j] EXCEPT ![col] = Scaled(j, @)]]],
          f |-> [x.f EXCEPT !.pc = "hyperplasia"] ]

\* ScaleIncidence with the band that starts at 50 scaled by the below-50 factor
ScaleIncidenceSplitAt55(x) ==
    LET c == x.c
    IN  [ c |-> [c EXCEPT
                   !.rlan = [j \in 0..13 |->
                               IF j + 1 <= 7 THEN MulP(c.rlan[j], c.rf[0])
                               ELSE MulP(c.rlan[j], c.rf[1])]],
          f |-> [x.f EXCEPT !.pc = "hyperplasia"] ]

\* lines 614-617: the incidence scaled by the attributable-risk factors
ScaleIncidence(x) ==
    LET c == x.c
    IN  [ c |-> [c EXCEPT
                   !.rlan = [j \in 0..13 |->
                               IF j + 1 <= 6 THEN MulP(c.rlan[j], c.rf[0])
                               ELSE MulP(c.rlan[j], c.rf[1])]],
          f |-> [x.f EXCEPT !.pc = "hyperplasia"] ]

\* Hyperplasia without the assignment to the mirror index
HyperplasiaNoMirror(x) ==
    LET c == x.c
        f == x.f
        at == PyIdx(f.ilev - 1, NumCovPattInGailModel)
    IN  IF at = -1 THEN Raise(x, "IndexError")
        ELSE [ c |-> [c EXCEPT !.sumbb = [@ EXCEPT ![at] = @ + LogHyp(f.rhyp)]],
               f |-> [f EXCEPT !.pc = "integrate"] ]

\* lines 619-622: the logarithm of the multiplier added at the pattern
Hyperplasia(x) ==
    LET c == x.c
        f == x.f
        i == f.ilev
        at == PyIdx(i - 1, NumCovPattInGailModel)
        mirror == PyIdx(i + 107, NumCovPattInGailModel)
        s1 == [c.sumbb EXCEPT ![at] = @ + LogHyp(f.rhyp)]
    IN  IF at = -1 THEN Raise(x, "IndexError")
        ELSE IF i <= 108
        THEN [ c |-> [c EXCEPT !.sumbb = [s1 EXCEPT ![mirror] = @ + LogHyp(f.rhyp)]],
               f |-> [f EXCEPT !.pc = "integrate"] ]
        ELSE [ c |-> [c EXCEPT !.sumbb = s1],
               f |-> [f EXCEPT !.pc = "integrate"] ]

(***************************************************************************)
(* The integration of lines 624-698.  A factor names a band (the code's    *)
(* band number j: rates at j-1, from t[j-1] to t[j]), the index at which   *)
(* sumbb is read and the width integrated over.  A term is an event        *)
(* factor and the survival factors multiplied onto it, in program order.   *)
(***************************************************************************)
Factor(band, pred, width) == [band |-> band, pred |-> pred, width |-> width]

\* IntegrationTerms with the full bands read at the query's own pattern
IntegrationTermsNoMirror(c, f) ==
    LET ti == f.CurrentAge
        ts == f.ProjectionAge
        ni == f.ni
        ns == f.ns
        i == f.ilev
        cross == f.ProjectionAge > 50 /\ f.CurrentAge < 50
        Pred(j) == i - 1
        first == Factor(ni, i - 1, c.t[ni] - ti)
        Full(j) == Factor(j, Pred(j), c.t[j] - c.t[j - 1])
        Between(lo, hi) == [n \in 1..(hi - lo + 1) |-> Full(lo + n - 1)]
        last == [ ev |-> Factor(ns, IF cross THEN i + 107 ELSE i - 1, ts - c.t[ns - 1]),
                  surv |-> <<first>> \o Between(ni + 1, ns - 1) ]
        middle == [n \in 1..(ns - ni - 1) |->
                     [ ev |-> Full(ni + n),
                       surv |-> <<first>> \o Between(ni + 1, ni + n - 1) ]]
    IN  IF ts <= c.t[ni]
        THEN << [ev |-> Factor(ni, i - 1, ts - ti), surv |-> <<>>] >>
        ELSE << [ev |-> first, surv |-> <<>>] >>
             \o (IF ns - ni > 0 THEN <<last>> ELSE <<>>)
             \o (IF ns - ni > 1 THEN middle ELSE <<>>)

\* IntegrationTerms with the middle terms not multiplied by the survival of
\* the first partial band
IntegrationTermsMiddleFromNext(c, f) ==
    LET ti == f.CurrentAge
        ts == f.ProjectionAge
        ni == f.ni
        ns == f.ns
        i == f.ilev
        cross == f.ProjectionAge > 50 /\ f.CurrentAge < 50
        Pred(j) == IF cross /\ c.t[j - 1] >= 50 THEN i + 107 ELSE i - 1
        first == Factor(ni, i - 1, c.t[ni] - ti)
        Full(j) == Factor(j, Pred(j), c.t[j] - c.t[j - 1])
        Between(lo, hi) == [n \in 1..(hi - lo + 1) |-> Full(lo + n - 1)]
        last == [ ev |-> Factor(ns, IF cross THEN i + 107 ELSE i - 1, ts - c.t[ns - 1]),
                  surv |-> <<first>> \o Between(ni + 1, ns - 1) ]
        middle == [n \in 1..(ns - ni - 1) |->
                     [ ev |-> Full(ni + n),
                       surv |-> Between(ni + 1, ni + n - 1) ]]
    IN  IF ts <= c.t[ni]
        THEN << [ev |-> Factor(ni, i - 1, ts - ti), surv |-> <<>>] >>
        ELSE << [ev |-> first, surv |-> <<>>] >>
             \o (IF ns - ni > 0 THEN <<last>> ELSE <<>>)
             \o (IF ns - ni > 1 THEN middle ELSE <<>>)

IntegrationTerms(c, f) ==
    LET ti == f.CurrentAge
        ts == f.ProjectionAge
        ni == f.ni
        ns == f.ns
        i == f.ilev
        cross == f.ProjectionAge > 50 /\ f.CurrentAge < 50
        Pred(j) == IF cross /\ c.t[j - 1] >= 50 THEN i + 107 ELSE i - 1
        first == Factor(ni, i - 1, c.t[ni] - ti)
        Full(j) == Factor(j, Pred(j), c.t[j] - c.t[j - 1])
        Between(lo, hi) == [n \in 1..(hi - lo + 1) |-> Full(lo + n - 1)]
        last == [ ev |-> Factor(ns, IF cross THEN i + 107 ELSE i - 1, ts - c.t[ns - 1]),
                  surv |-> <<first>> \o Between(ni + 1, ns - 1) ]
        middle == [n \in 1..(ns - ni - 1) |->
                     [ ev |-> Full(ni + n),
                       surv |-> <<first>> \o Between(ni + 1, ni + n - 1) ]]
    IN  IF ts <= c.t[ni]
        THEN << [ev |-> Factor(ni, i - 1, ts - ti), surv |-> <<>>] >>
        ELSE << [ev |-> first, surv |-> <<>>] >>
             \o (IF ns - ni > 0 THEN <<last>> ELSE <<>>)
             \o (IF ns - ni > 1 THEN middle ELSE <<>>)

\* rlan[j-1] * exp(sumbb[pred])
Incidence(c, fac) ==
    MulB(c.rlan[PyIdx(fac.band - 1, 14)],
         ExpB(c.sumbb[PyIdx(fac.pred, NumCovPattInGailModel)]))

\* rlan[j-1] * exp(sumbb[pred]) + rmu[j-1]
Hazard(c, fac) == Incidence(c, fac) + c.rmu[PyIdx(fac.band - 1, 14)]

\* EventProb with the probability of no event in the band for that of one
EventProbOfSurviving(c, fac) ==
    MulDiv(ExpNegP(Hazard(c, fac) * fac.width), Incidence(c, fac), Hazard(c, fac))

\* (1 - exp(-hazard * width)) * incidence / hazard; the rates loaded from the
\* tables are positive, so the hazard is
EventProb(c, fac) ==
    MulDiv(PScale - ExpNegP(Hazard(c, fac) * fac.width), Incidence(c, fac),
           Hazard(c, fac))

\* exp(-hazard * width)
Survival(c, fac) == ExpNegP(Hazard(c, fac) * fac.width)

RECURSIVE TimesSurvival(_, _, _, _)
TimesSurvival(c, r, surv, n) ==
    IF n > Len(surv) THEN r
    ELSE TimesSurvival(c, MulP(r, Survival(c, surv[n])), surv, n + 1)

\* TermValue without the survival factors of the bands before the term's
TermValueNoSurvival(c, term) == EventProb(c, term.ev)

\* one term: the event probability of its band times the survival factors
TermValue(c, term) == TimesSurvival(c, EventProb(c, term.ev), term.surv, 1)

\* whether evaluating the term indexes sumbb outside the array
TermRaises(term) ==
    \/ PyIdx(term.ev.pred, NumCovPattInGailModel) = -1
    \/ \E n \in 1..Len(term.surv) :
          PyIdx(term.surv[n].pred, NumCovPattInGailModel) = -1

RECURSIVE SumTerms(_, _, _)
SumTerms(c, terms, n) ==
    IF n = 0 THEN 0 ELSE SumTerms(c, terms, n - 1) + TermValue(c, terms[n])

\* lines 624-698: abs[i-1] accumulates the terms; a term that indexes sumbb
\* outside the array raises with the terms before it already stored
Integrate(x) ==
    LET c == x.c
        f == x.f
        at == PyIdx(f.ilev - 1, NumCovPattInGailModel)
        terms == IntegrationTerms(c, f)
        bad == {n \in 1..Len(terms) : TermRaises(terms[n])}
        stop == IF bad = {} THEN Len(terms)
                ELSE (CHOOSE n \in bad : \A m \in bad : n <= m) - 1
        total == SumTerms(c, terms, stop)
    IN  IF bad = {}
        THEN [ c |-> [c EXCEPT !.abs[at] = total],
               f |-> [f EXCEPT !.pc = "done", !.ret = total] ]
        ELSE [ c |-> [c EXCEPT !.abs[at] = total],
               f |-> [f EXCEPT !.pc = "raised", !.err = "IndexError"] ]

\* one block of _calculate_risk
Step(x) ==
    CASE x.f.pc = "select_beta" -> SelectBeta(x)
      [] x.f.pc = "load_rates" -> LoadRates(x)
      [] x.f.pc = "predictors" -> Predictors(x)
      [] x.f.pc = "scale" -> ScaleIncidence(x)
      [] x.f.pc = "hyperplasia" -> Hyperplasia(x)
      [] x.f.pc = "integrate" -> Integrate(x)

\* _calculate_risk run from its first block to its return or its exception
RECURSIVE calculate_risk(_)
calculate_risk(x) ==
    IF x.f.pc \in {"done", "raised"} THEN x ELSE calculate_risk(Step(x))

(***************************************************************************)
(* The public methods.  Each returns                                       *)
(*   [c |-> the calculator after, status |-> "ok" or the exception,        *)
(*    value |-> what was returned, frames |-> the _calculate_risk frames]  *)
(***************************************************************************)
RiskCall(c, risk_index, params) ==
    IF ~c.is_initialized
    THEN [c |-> c, status |-> "RuntimeError", value |-> 0, frames |-> <<>>]
    ELSE With(calculate_risk([c |-> c, f |-> calculate_risk_api(risk_index, params)]),
              LAMBDA x :
                 [ c |-> x.c,
                   status |-> IF x.f.pc = "done" THEN "ok" ELSE x.f.err,
                   value |-> x.f.ret,
                   frames |-> <<x.f>> ])

calculate_absolute_risk(c, params) == RiskCall(c, 1, params)

calculate_average_risk(c, params) == RiskCall(c, 2, params)

\* RelativeRisk with the operands of the division swapped
RelativeRiskSwapped(abs_risk, avg_risk) ==
    IF avg_risk > 0 /\ abs_risk > 0 THEN MulDiv(avg_risk, BScale, abs_risk) ELSE 0

\* abs_risk / avg_risk if avg_risk > 0 else 0.0, in units of 1/BScale
RelativeRisk(abs_risk, avg_risk) ==
    IF avg_risk > 0 THEN MulDiv(abs_risk, BScale, avg_risk) ELSE 0

NoResult == [absolute_risk |-> 0, average_risk |-> 0, relative_risk |-> 0,
             current_age |-> 0, projection_age |-> 0]

calculate_full_risk(c, params) ==
    IF ~validate(params)
    THEN [c |-> c, status |-> "ValueError", value |-> NoResult, frames |-> <<>>]
    ELSE With(calculate_absolute_risk(c, params), LAMBDA a :
            IF a.status # "ok"
            THEN [a EXCEPT !.value = NoResult]
            ELSE With(calculate_average_risk(a.c, params), LAMBDA b :
                    IF b.status # "ok"
                    THEN [b EXCEPT !.value = NoResult,
                                   !.frames = a.frames \o b.frames]
                    ELSE [ c |-> b.c,
                           status |-> "ok",
                           value |-> [ absolute_risk |-> a.value,
                                       average_risk |-> b.value,
                                       relative_risk |-> RelativeRisk(a.value, b.value),
                                       current_age |-> params.current_age,
                                       projection_age |-> params.projection_age ],
                           frames |-> a.frames \o b.frames ]))

(***************************************************************************)
(* Queries                                                                 *)
(***************************************************************************)
\* GailInputParams
Params(ca, pa, m, fb, rel, ever, nb, hyp, race) ==
    [ current_age |-> ca, projection_age |-> pa, menarche_age |-> m,
      first_live_birth_age |-> fb, first_deg_relatives |-> rel,
      ever_had_biopsy |-> ever, number_of_biopsy |-> nb, hyperplasia |-> hyp,
      race |-> race ]

\* what is recorded of a call on the calculator; untouched tells whether the
\* call left every attribute of the calculator as it found it
CallRecord(op, params, before, out) ==
    [ op |-> op, params |-> params, status |-> out.status, value |-> out.value,
      frames |-> out.frames, untouched |-> (out.c = before) ]

Idle == [op |-> "none"]

(***************************************************************************)
(* Spec: calls made one after another on one calculator                    *)
(***************************************************************************)
MaxCalls == 2

\* <<current age, projection age, race>>: a window that starts below 50 and
\* crosses it, and a window that starts above 50
SeqSubjects == {<<45, 60, 1>>, <<55, 60, 8>>}

\* <<menarche, first birth, relatives, ever had biopsy, biopsies, hyperplasia>>
SeqFactors == {<<0, 0, 0, 0, 0, 99>>, <<2, 1, 1, 1, 1, 1>>}

SeqQueries ==
    {Params(s[1], s[2], x[1], x[2], x[3], x[4], x[5], x[6], s[3]) :
        s \in SeqSubjects, x \in SeqFactors}

Init ==
    /\ calc = NewCalculator
    /\ call = <<>>
    /\ ncalls = 0
    /\ threads = <<>>
    /\ svc = Idle
    /\ probe = Idle

\* create_calculator's call of initialize on the new instance
Initialize ==
    /\ ~calc.is_initialized
    /\ calc' = initialize(calc)
    /\ UNCHANGED <<call, ncalls, threads, svc, probe>>

\* one call of a public method, run to its return or its exception
Invoke(op, params, out) ==
    /\ calc' = out.c
    /\ call' = Append(call, CallRecord(op, params, calc, out))
    /\ ncalls' = ncalls + 1
    /\ UNCHANGED <<threads, svc, probe>>

CalculateFullRisk ==
    /\ ncalls < MaxCalls
    /\ \E p \in SeqQueries :
          \E out \in {calculate_full_risk(calc, p)} :
              Invoke("calculate_full_risk", p, out)

CalculateAbsoluteRisk ==
    /\ ncalls < MaxCalls
    /\ \E p \in SeqQueries :
          \E out \in {calculate_absolute_risk(calc, p)} :
              Invoke("calculate_absolute_risk", p, out)

CalculateAverageRisk ==
    /\ ncalls < MaxCalls
    /\ \E p \in SeqQueries :
          \E out \in {calculate_average_risk(calc, p)} :
              Invoke("calculate_average_risk", p, out)

Next ==
    \/ Initialize
    \/ CalculateFullRisk
    \/ CalculateAbsoluteRisk
    \/ CalculateAverageRisk

Spec == Init /\ [][Next]_vars

\* the method named op applied to calculator c
Dispatch(c, op, params) ==
    CASE op = "calculate_full_risk" -> calculate_full_risk(c, params)
      [] op = "calculate_absolute_risk" -> calculate_absolute_risk(c, params)
      [] op = "calculate_average_risk" -> calculate_average_risk(c, params)

\* whether the call returned an average risk, and that risk
HasAverage(r) ==
    r.status = "ok" /\ r.op \in {"calculate_full_risk", "calculate_average_risk"}

AverageOf(r) ==
    IF r.op = "calculate_full_risk" THEN r.value.average_risk ELSE r.value

SameAgesAndRace(p, q) ==
    /\ p.current_age = q.current_age
    /\ p.projection_age = q.projection_age
    /\ p.race = q.race

\* the frames of the _calculate_risk invocations of every call made so far
AllFrames == UNION {{call[n].frames[k] : k \in 1..Len(call[n].frames)} : n \in 1..Len(call)}

\* C5: with calls made one after another on one calculator, every call ends as
\* the same call ends on a newly created calculator: same status and same
\* value, whatever calls went before it
C5_SequentialIdempotence ==
    \A n \in 1..Len(call) :
        call[n].status # "RuntimeError" =>
            LET fresh == Dispatch(create_calculator, call[n].op, call[n].params)
            IN  call[n].status = fresh.status /\ call[n].value = fresh.value

\* a call that succeeded after a different successful query with another race
\* and another hyperplasia multiplier had used the scratch arrays
C5_Witness ==
    /\ Len(call) = 2
    /\ call[1].status = "ok" /\ call[2].status = "ok"
    /\ call[1].params.race # call[2].params.race
    /\ call[1].params.hyperplasia = 1 /\ call[2].params.hyperplasia = 99
    /\ call[1].op = "calculate_absolute_risk"
    /\ call[2].op = "calculate_full_risk"

\* C9: every average-mode computation runs with menarche, biopsies, first
\* birth and relatives at category 0 and the multiplier at 1.0, at pattern 1
\* below age 50 and 109 from 50 on; and two calls that agree on the ages and
\* the race return the same average risk
C9_AverageIgnoresFactors ==
    /\ \A f \in AllFrames :
          (f.riskindex = 2 /\ f.pc = "done") =>
              /\ f.MenarcheAge = 0 /\ f.NumberOfBiopsy = 0
              /\ f.FirstLiveBirthAge = 0 /\ f.FirstDegRelatives = 0
              /\ f.rhyp = 100
              /\ f.ilev = IF f.CurrentAge < 50 THEN 1 ELSE 109
    /\ \A n, m \in 1..Len(call) :
          (HasAverage(call[n]) /\ HasAverage(call[m])
              /\ SameAgesAndRace(call[n].params, call[m].params)) =>
              AverageOf(call[n]) = AverageOf(call[m])

\* two average risks returned for the same ages from 50 on and the same race
\* but for different menarche, biopsy, hyperplasia, first-birth and relatives
\* inputs
C9_Witness ==
    /\ Len(call) = 2
    /\ HasAverage(call[1]) /\ HasAverage(call[2])
    /\ SameAgesAndRace(call[1].params, call[2].params)
    /\ call[1].params.menarche_age # call[2].params.menarche_age
    /\ call[1].params.first_deg_relatives # call[2].params.first_deg_relatives
    /\ call[1].params.hyperplasia # call[2].params.hyperplasia
    /\ call[1].params.current_age >= 50
    /\ call[1].op = "calculate_full_risk"
    /\ call[1].frames[2].ilev = 109
    /\ AverageOf(call[1]) > 0

(***************************************************************************)
(* Single calls on a calculator made by create_calculator                  *)
(***************************************************************************)
InitCreated ==
    /\ calc = create_calculator
    /\ call = <<>>
    /\ ncalls = 0
    /\ threads = <<>>
    /\ svc = Idle
    /\ probe = Idle

\* the one call made, once it is made
Made == Len(call) = 1

TheCall == call[1]

(***************************************************************************)
(* SpecAges: calculate_full_risk over age pairs around the limits          *)
(***************************************************************************)
AgeMargin == 2

AgeCurrent ==
    ((20 - AgeMargin)..(20 + AgeMargin)) \cup {49, 50}
        \cup ((85 - AgeMargin)..(85 + AgeMargin))

AgeProjection(ca) ==
    {ca - 1, ca, ca + 1, ca + 5} \cup ((90 - AgeMargin)..(90 + AgeMargin))

\* a supported race, an Asian subgroup and an unsupported code
AgeRaces == {1, 9, 13}

\* all factors at category 0; a menarche category outside 0..2
AgeFactors == {<<0, 0, 0, 0, 0, 99>>, <<5, 0, 0, 0, 0, 99>>}

AgeQueries ==
    UNION {{Params(ca, pa, x[1], x[2], x[3], x[4], x[5], x[6], r) :
                pa \in AgeProjection(ca), x \in AgeFactors, r \in AgeRaces} :
           ca \in AgeCurrent}

CallWithAges ==
    /\ ncalls = 0
    /\ \E p \in AgeQueries :
          \E out \in {calculate_full_risk(calc, p)} :
              Invoke("calculate_full_risk", p, out)

NextAges == CallWithAges

SpecAges == InitCreated /\ [][NextAges]_vars

\* C1: calculate_full_risk passes a query on to the risk computation exactly
\* when 20 <= current_age <= 85 and current_age < projection_age <= 90; every
\* other age pair, whatever the race and the categories, ends in the
\* validation error with no result, no risk computation started and the
\* calculator left as it was
C1_AgeValidation ==
    Made =>
        LET p == TheCall.params
        IN  /\ (TheCall.status # "ValueError") <=>
                  (/\ 20 <= p.current_age /\ p.current_age <= 85
                   /\ p.current_age < p.projection_age
                   /\ p.projection_age <= 90)
            /\ TheCall.status = "ValueError" =>
                  (/\ TheCall.value = NoResult
                   /\ TheCall.frames = <<>>
                   /\ TheCall.untouched)

\* a query whose projection age equals its current age, with an unsupported
\* race and an out-of-range category, rejected by the validation
C1_Witness ==
    /\ Made
    /\ TheCall.params.projection_age = TheCall.params.current_age
    /\ TheCall.params.current_age = 50
    /\ TheCall.params.race = 13
    /\ TheCall.params.menarche_age = 5
    /\ TheCall.status = "ValueError"

(***************************************************************************)
(* SpecRaces: calculate_full_risk over race codes in and around 1..12      *)
(***************************************************************************)
RaceSpan == 14

RaceCodes == (-RaceSpan)..RaceSpan

RaceWindows == {<<35, 40>>, <<45, 60>>}

RaceFactors == {<<0, 0, 0, 0, 0, 99>>, <<2, 1, 1, 1, 1, 1>>}

RaceQueries ==
    {Params(w[1], w[2], x[1], x[2], x[3], x[4], x[5], x[6], r) :
        w \in RaceWindows, x \in RaceFactors, r \in RaceCodes}

CallWithRace ==
    /\ ncalls = 0
    /\ \E p \in RaceQueries :
          \E out \in {calculate_full_risk(calc, p)} :
              Invoke("calculate_full_risk", p, out)

NextRaces == CallWithRace

SpecRaces == InitCreated /\ [][NextRaces]_vars

\* C2: a race code outside 1..12 makes the calculation fail and produce no
\* result
C2_UnknownRaceRejected ==
    Made =>
        (TheCall.params.race \notin 1..12 =>
            (TheCall.status # "ok" /\ TheCall.value = NoResult))

(***************************************************************************)
(* SpecCategories: calculate_full_risk over categories in and beyond their *)
(* cardinalities                                                           *)
(***************************************************************************)
CategoryWindows == {<<35, 40>>, <<45, 60>>, <<55, 60>>}

CategoryRaces == {1, 8}

CategoryQueries ==
    {Params(w[1], w[2], m, fb, rel, 1, nb, 99, r) :
        w \in CategoryWindows, m \in 0..3, fb \in 0..4, rel \in {0, 1, 2, 32},
        nb \in {1, 2, 31}, r \in CategoryRaces}

CallWithCategories ==
    /\ ncalls = 0
    /\ \E p \in CategoryQueries :
          \E out \in {calculate_full_risk(calc, p)} :
              Invoke("calculate_full_risk", p, out)

NextCategories == CallWithCategories

SpecCategories == InitCreated /\ [][NextCategories]_vars

\* whether a category of the frame is beyond its cardinality
ExceedsCardinality(f) ==
    \/ f.AgeIndicator > 1
    \/ f.MenarcheAge > 2
    \/ f.NumberOfBiopsy > 2
    \/ f.FirstLiveBirthAge > 3
    \/ f.FirstDegRelatives > 2

\* C3: when, after recoding, a category of the absolute-risk computation is
\* beyond its cardinality, the calculation fails and returns no risk
C3_PatternOutOfRangeRejected ==
    Made =>
        ((Len(TheCall.frames) >= 1 /\ ExceedsCardinality(TheCall.frames[1])) =>
            TheCall.status # "ok")

(***************************************************************************)
(* SpecWide: calculate_full_risk over valid queries of every race, and the *)
(* relative risk of given absolute and average risks                       *)
(***************************************************************************)
WideWindows ==
    {<<20, 90>>, <<35, 40>>, <<35, 85>>, <<47, 52>>, <<49, 50>>, <<50, 51>>,
     <<50, 90>>, <<62, 63>>, <<85, 90>>}

\* <<menarche, first birth, relatives, ever had biopsy, biopsies, hyperplasia>>
WideFactors ==
    {<<0, 0, 0, 0, 0, 99>>, <<2, 0, 2, 1, 2, 1>>, <<2, 3, 2, 1, 2, 0>>,
     <<1, 1, 1, 1, 1, 99>>, <<0, 3, 0, 99, 99, 99>>, <<2, 2, 31, 1, 30, 1>>}

WideQueries ==
    {Params(w[1], w[2], x[1], x[2], x[3], x[4], x[5], x[6], r) :
        w \in WideWindows, x \in WideFactors, r \in 1..12}

\* absolute and average risks to divide, in units of 1/PScale; their quotients
\* stay below 2^31 / BScale
AbsSamples == {0, 709359, 81142604}

AvgSamples == {0, 281411, 709359, PScale}

CallWide ==
    /\ ncalls = 0
    /\ \E p \in WideQueries :
          \E out \in {calculate_full_risk(calc, p)} :
              Invoke("calculate_full_risk", p, out)

\* the last statement of calculate_full_risk on its own, on given risks
ApplyRelativeRisk ==
    /\ ncalls = 0
    /\ probe.op = "none"
    /\ \E a \in AbsSamples, b \in AvgSamples :
          probe' = [ op |-> "relative_risk", abs_risk |-> a, avg_risk |-> b,
                     rel_risk |-> RelativeRisk(a, b) ]
    /\ UNCHANGED <<calc, call, ncalls, threads, svc>>

NextWide ==
    \/ CallWide
    \/ ApplyRelativeRisk

SpecWide == InitCreated /\ [][NextWide]_vars

\* C6: for valid ages, races 1..12 and categories within their cardinalities
\* the call succeeds with 0 <= absolute risk <= 1 and 0 <= average risk <= 1
C6_RisksAreProbabilities ==
    Made =>
        /\ TheCall.status = "ok"
        /\ 0 <= TheCall.value.absolute_risk
        /\ TheCall.value.absolute_risk <= PScale
        /\ 0 <= TheCall.value.average_risk
        /\ TheCall.value.average_risk <= PScale

\* the highest-risk pattern over the longest window: an absolute risk above
\* one half
C6_Witness ==
    /\ Made
    /\ TheCall.status = "ok"
    /\ TheCall.params.current_age = 20 /\ TheCall.params.projection_age = 90
    /\ 2 * TheCall.value.absolute_risk > PScale
    /\ TheCall.value.average_risk > 0

\* rel is abs / avg within the rounding of the division
IsQuotient(rel, abs_risk, avg_risk) ==
    /\ MulB(rel, avg_risk) <= abs_risk
    /\ abs_risk <= MulB(rel, avg_risk) + (avg_risk \div BScale) + 1

\* C7: the relative risk returned is the absolute risk divided by the average
\* risk when the average risk is above 0 and is 0 when it is 0; the two
\* risks are those of the absolute-mode and the average-mode computation for
\* the query's ages and race, and the result echoes the query's ages
C7_RelativeRiskIsRatio ==
    /\ Made /\ TheCall.status = "ok" =>
          LET v == TheCall.value
              p == TheCall.params
              fa == TheCall.frames[1]
              fb == TheCall.frames[2]
          IN  /\ v.average_risk > 0 =>
                    IsQuotient(v.relative_risk, v.absolute_risk, v.average_risk)
              /\ v.average_risk = 0 => v.relative_risk = 0
              /\ v.current_age = p.current_age
              /\ v.projection_age = p.projection_age
              /\ fa.riskindex = 1 /\ fb.riskindex = 2
              /\ v.absolute_risk = fa.ret /\ v.average_risk = fb.ret
              /\ fa.CurrentAge = p.current_age /\ fb.CurrentAge = p.current_age
              /\ fa.ProjectionAge = p.projection_age
              /\ fb.ProjectionAge = p.projection_age
              /\ fa.irace = p.race /\ fb.irace = p.race
    /\ probe.op = "relative_risk" =>
          /\ probe.avg_risk > 0 =>
                IsQuotient(probe.rel_risk, probe.abs_risk, probe.avg_risk)
          /\ probe.avg_risk = 0 => probe.rel_risk = 0

\* a result whose relative risk is above 1, and a division by an average
\* risk of exactly 0
C7_Witness ==
    /\ Made /\ TheCall.status = "ok"
    /\ TheCall.value.average_risk > 0
    /\ TheCall.value.relative_risk > 2 * BScale
    /\ probe.op = "relative_risk"
    /\ probe.avg_risk = 0 /\ probe.abs_risk > 0 /\ probe.rel_risk = 0

(***************************************************************************)
(* SpecIndex: the pattern index of every category tuple                    *)
(***************************************************************************)
CategoryTuples == (0..1) \X (0..2) \X (0..2) \X (0..3) \X (0..2)

IndexOf(x) == PatternIndex(x[1], x[2], x[3], x[4], x[5])

ApplyPatternIndex ==
    /\ \E x \in CategoryTuples :
          probe' = [op |-> "pattern_index", tuple |-> x, ilev |-> IndexOf(x)]
    /\ UNCHANGED <<calc, call, ncalls, threads, svc>>

NextIndex == ApplyPatternIndex

SpecIndex == InitCreated /\ [][NextIndex]_vars

\* the category tuple read off an index by division and remainder
DecodeIndex(k) ==
    << (k - 1) \div 108, ((k - 1) % 108) \div 36, ((k - 1) % 36) \div 12,
       ((k - 1) % 12) \div 3, (k - 1) % 3 >>

\* C8: the index of a category tuple lies in 1..216 and decodes back to the
\* tuple; no other tuple has it; every index in 1..216 is some tuple's;
\* indices 1..108 are the tuples with age indicator 0, and the index of the
\* same tuple with age indicator 1 is 108 higher
C8_PatternIndexBijective ==
    probe.op = "pattern_index" =>
        LET x == probe.tuple
            k == probe.ilev
        IN  /\ k \in 1..NumCovPattInGailModel
            /\ DecodeIndex(k) = x
            /\ \A y \in CategoryTuples : y # x => IndexOf(y) # k
            /\ \A j \in 1..NumCovPattInGailModel :
                  \E y \in CategoryTuples : IndexOf(y) = j
            /\ (x[1] = 0) <=> (k <= 108)
            /\ IndexOf(<<1, x[2], x[3], x[4], x[5]>>)
                  = IndexOf(<<0, x[2], x[3], x[4], x[5]>>) + 108

\* the last tuple, at the last index
C8_Witness ==
    /\ probe.op = "pattern_index"
    /\ probe.tuple = <<1, 2, 2, 3, 2>>
    /\ probe.ilev = 216

(***************************************************************************)
(* SpecThreads: two calls on the calculator of the service singleton,      *)
(* overlapping.  A thread runs _calculate_risk block by block; between two *)
(* blocks the other thread may run.                                        *)
(***************************************************************************)
ThreadIds == {1, 2}

ThreadWindows == {<<45, 60>>}

ThreadRaces == {1, 2}

ThreadFactors == {<<0, 0, 0, 0, 0, 99>>, <<2, 1, 1, 1, 1, 1>>}

ThreadQueries ==
    {Params(w[1], w[2], x[1], x[2], x[3], x[4], x[5], x[6], r) :
        w \in ThreadWindows, x \in ThreadFactors, r \in ThreadRaces}

InitThreads ==
    /\ calc = create_calculator
    /\ call = <<>>
    /\ ncalls = 0
    /\ threads = [i \in ThreadIds |-> [st |-> "idle"]]
    /\ svc = Idle
    /\ probe = Idle

\* a thread enters calculate_absolute_risk or calculate_average_risk: the
\* initialization check and _calculate_risk_api up to the call of
\* _calculate_risk
BeginCall(i) ==
    /\ threads[i].st = "idle"
    /\ calc.is_initialized
    /\ \E risk_index \in {1, 2}, p \in ThreadQueries :
          threads' = [threads EXCEPT ![i] =
                         [ st |-> "running", risk_index |-> risk_index,
                           params |-> p,
                           f |-> calculate_risk_api(risk_index, p) ]]
    /\ UNCHANGED <<calc, call, ncalls, svc, probe>>

\* a thread runs its next block of _calculate_risk on the shared calculator
StepCall(i) ==
    /\ threads[i].st = "running"
    /\ LET x == Step([c |-> calc, f |-> threads[i].f])
       IN  /\ calc' = x.c
           /\ threads' = [threads EXCEPT
                  ![i].f = x.f,
                  ![i].st = IF x.f.pc \in {"done", "raised"}
                            THEN "finished" ELSE "running"]
    /\ UNCHANGED <<call, ncalls, svc, probe>>

NextThreads == \E i \in ThreadIds : BeginCall(i) \/ StepCall(i)

SpecThreads == InitThreads /\ [][NextThreads]_vars

\* the same call run alone on a calculator nobody else uses
RunAlone(risk_index, params) == RiskCall(create_calculator, risk_index, params)

\* C4: a call that overlapped another call on the same calculator returns
\* exactly what it returns when run alone
C4_OverlapInvisible ==
    \A i \in ThreadIds :
        threads[i].st = "finished" =>
            LET alone == RunAlone(threads[i].risk_index, threads[i].params)
            IN  /\ (threads[i].f.pc = "done") <=> (alone.status = "ok")
                /\ threads[i].f.ret = alone.value

(***************************************************************************)
(* The questionnaire mapper and the service                                *)
(*   An Optional[int] is <<>> for None and <<v>> for the value v.          *)
(***************************************************************************)
map_menarche_age(age_at_menarche) ==
    IF age_at_menarche >= 14 THEN 0
    ELSE IF 12 <= age_at_menarche /\ age_at_menarche <= 13 THEN 1
    ELSE 2

\* map_first_birth_age with a further category for a first birth from 35 on
map_first_birth_ageFiveBands(age_at_first_birth, current_age) ==
    IF age_at_first_birth = <<>> THEN 2
    ELSE IF age_at_first_birth[1] < 20 THEN 0
    ELSE IF age_at_first_birth[1] < 25 THEN 1
    ELSE IF age_at_first_birth[1] < 30 THEN 2
    ELSE IF age_at_first_birth[1] < 35 THEN 3
    ELSE 4

map_first_birth_age(age_at_first_birth, current_age) ==
    IF age_at_first_birth = <<>> THEN 2
    ELSE IF age_at_first_birth[1] < 20 THEN 0
    ELSE IF age_at_first_birth[1] < 25 THEN 1
    ELSE IF age_at_first_birth[1] < 30 THEN 2
    ELSE 3

map_biopsy_status(ever_had_biopsy) ==
    CASE ever_had_biopsy = "no" -> 0
      [] ever_had_biopsy = "yes" -> 1
      [] OTHER -> 99

map_number_of_biopsies(ever_had_biopsy, number_of_biopsies) ==
    LET biopsy_status == map_biopsy_status(ever_had_biopsy)
    IN  IF biopsy_status = 0 THEN 0
        ELSE IF biopsy_status = 99 THEN 99
        ELSE IF number_of_biopsies = <<>> THEN 1
        ELSE IF number_of_biopsies[1] = 1 THEN 1
        ELSE IF 2 <= number_of_biopsies[1] /\ number_of_biopsies[1] <= 30 THEN 2
        ELSE 99

map_hyperplasia(has_atypical_hyperplasia, ever_had_biopsy) ==
    IF ever_had_biopsy = "no" THEN 99
    ELSE CASE has_atypical_hyperplasia = "no" -> 0
           [] has_atypical_hyperplasia = "yes" -> 1
           [] OTHER -> 99

map_relatives(num_first_degree_relatives, race) ==
    IF num_first_degree_relatives = 0 THEN 0
    ELSE IF num_first_degree_relatives = 1 THEN 1
    ELSE IF num_first_degree_relatives >= 2
         THEN (IF race >= 7 THEN 1 ELSE 2)
    ELSE 0

map_race(race, sub_race) ==
    IF sub_race # <<>> /\ 7 <= sub_race[1] /\ sub_race[1] <= 12 THEN sub_race[1]
    ELSE IF race = 4 /\ sub_race = <<>> THEN 12
    ELSE race

questionnaire_to_gail_input(questionnaire) ==
    LET final_race == map_race(questionnaire.race, questionnaire.sub_race)
    IN  Params(questionnaire.age,
               questionnaire.age + 5,
               map_menarche_age(questionnaire.age_at_menarche),
               map_first_birth_age(questionnaire.age_at_first_birth,
                                   questionnaire.age),
               map_relatives(questionnaire.num_first_degree_relatives, final_race),
               map_biopsy_status(questionnaire.ever_had_biopsy),
               map_number_of_biopsies(questionnaire.ever_had_biopsy,
                                      questionnaire.number_of_biopsies),
               map_hyperplasia(questionnaire.has_atypical_hyperplasia,
                               questionnaire.ever_had_biopsy),
               final_race)

\* the lifetime projection age without the cap at 90
LifetimeProjectionUncapped(age) == age + 50

\* projection_lifetime = min(90, questionnaire.age + 50)
LifetimeProjection(age) == IF 90 <= age + 50 THEN 90 ELSE age + 50

\* categorize_risk with the lower threshold counted as low
categorize_riskLowInclusive(relative_risk) ==
    IF relative_risk <= BScale THEN "low"
    ELSE IF relative_risk < 167 * 10000 THEN "moderate"
    ELSE "high"

\* GailService._categorize_risk on a relative risk in units of 1/BScale; the
\* three category texts are named low, moderate and high
categorize_risk(relative_risk) ==
    IF relative_risk < BScale THEN "low"
    ELSE IF relative_risk < 167 * 10000 THEN "moderate"
    ELSE "high"

\* GailResult._interpret: which of its three texts it returns
interpret(relative_risk) ==
    IF relative_risk >= 167 * 10000 THEN "high"
    ELSE IF relative_risk >= BScale THEN "moderate"
    ELSE "low"

\* GailService.calculate_risk on the service's calculator c: the calls made
\* on the engine, in order, the risk category and how the request ended
service_calculate_risk(c, questionnaire) ==
    With(questionnaire_to_gail_input(questionnaire), LAMBDA gail_input :
      With(calculate_full_risk(c, gail_input), LAMBDA result_5year :
        IF result_5year.status # "ok"
        THEN [ c |-> result_5year.c, status |-> result_5year.status,
               engine_calls |-> <<CallRecord("calculate_full_risk", gail_input,
                                             c, result_5year)>>,
               gail_input |-> gail_input, risk_category |-> "none" ]
        ELSE With([gail_input EXCEPT
                      !.projection_age = LifetimeProjection(questionnaire.age)],
                  LAMBDA gail_input_lifetime :
               With(calculate_full_risk(result_5year.c, gail_input_lifetime),
                    LAMBDA result_lifetime :
                      [ c |-> result_lifetime.c,
                        status |-> result_lifetime.status,
                        engine_calls |->
                            << CallRecord("calculate_full_risk", gail_input,
                                          c, result_5year),
                               CallRecord("calculate_full_risk",
                                          gail_input_lifetime, result_5year.c,
                                          result_lifetime) >>,
                        gail_input |-> gail_input,
                        risk_category |->
                            IF result_lifetime.status = "ok"
                            THEN categorize_risk(result_5year.value.relative_risk)
                            ELSE "none" ]))))

(***************************************************************************)
(* SpecService: one request served by GailService.calculate_risk           *)
(***************************************************************************)
\* PatientQuestionnaire
Questionnaire(age, race, sub_race, ever_had_biopsy, number_of_biopsies, has_atypical_hyperplasia, age_at_menarche, age_at_first_birth, num_first_degree_relatives) ==
    [ age |-> age, race |-> race, sub_race |-> sub_race,
      ever_had_biopsy |-> ever_had_biopsy,
      number_of_biopsies |-> number_of_biopsies,
      has_atypical_hyperplasia |-> has_atypical_hyperplasia,
      age_at_menarche |-> age_at_menarche,
      age_at_first_birth |-> age_at_first_birth,
      num_first_degree_relatives |-> num_first_degree_relatives ]

\* the answers of a questionnaire other than the age:
\* <<race, sub_race, ever_had_biopsy, number_of_biopsies,
\*   has_atypical_hyperplasia, age_at_menarche, age_at_first_birth,
\*   num_first_degree_relatives>>
ServiceAnswers ==
    { <<1, <<>>, "unknown", <<>>, "unknown", 14, <<>>, 0>>,
      <<2, <<>>, "yes", <<1>>, "yes", 11, <<22>>, 1>>,
      <<4, <<8>>, "yes", <<3>>, "no", 12, <<31>>, 3>>,
      <<5, <<>>, "no", <<>>, "unknown", 17, <<18>>, 10>> }

ServiceQuestionnaires ==
    {Questionnaire(age, x[1], x[2], x[3], x[4], x[5], x[6], x[7], x[8]) :
        age \in 35..85, x \in ServiceAnswers}

\* a request reaches the service with a questionnaire that passed the
\* request model
ServeRequest ==
    /\ svc.op = "none"
    /\ probe.op = "none"
    /\ \E q \in ServiceQuestionnaires :
          \E out \in {service_calculate_risk(calc, q)} :
              /\ calc' = out.c
              /\ svc' = [ op |-> "calculate_risk", questionnaire |-> q,
                          gail_input |-> out.gail_input, status |-> out.status,
                          engine_calls |-> out.engine_calls,
                          risk_category |-> out.risk_category ]
    /\ UNCHANGED <<call, ncalls, threads, probe>>

NextService == ServeRequest

SpecService == InitCreated /\ [][NextService]_vars

\* the recoded factors of a query: everything but the projection age
SameButProjection(p, q) == [p EXCEPT !.projection_age = q.projection_age] = q

RelMargin == 2

\* relative risks in units of 1/BScale: 0, around 1.0, around 1.67, and large
RelSamples ==
    {0, 1, 2520722, 400 * BScale}
        \cup ((BScale - RelMargin)..(BScale + RelMargin))
        \cup ((167 * 10000 - RelMargin)..(167 * 10000 + RelMargin))

ApplyCategorize ==
    /\ svc.op = "none"
    /\ probe.op = "none"
    /\ \E rel \in RelSamples :
          probe' = [ op |-> "categorize", relative_risk |-> rel,
                     risk_category |-> categorize_risk(rel),
                     interpretation |-> interpret(rel) ]
    /\ UNCHANGED <<calc, call, ncalls, threads, svc>>

NextCategory ==
    \/ ServeRequest
    \/ ApplyCategorize

SpecCategory == InitCreated /\ [][NextCategory]_vars

\* the category the thresholds 1.0 and 1.67 give
ThresholdCategory(rel) ==
    CASE rel < 1000000 -> "low"
      [] 1000000 <= rel /\ rel < 1670000 -> "moderate"
      [] rel >= 1670000 -> "high"

\* C11: the category of a response is the category of its 5-year relative
\* risk: low below 1.0, moderate from 1.0 up to but not including 1.67, high
\* from 1.67 on; every relative risk, 0 included, gets exactly one of the
\* three, and GailResult._interpret picks the same band
C11_CategoryFromRelativeRisk ==
    /\ probe.op = "categorize" =>
          /\ probe.risk_category = ThresholdCategory(probe.relative_risk)
          /\ probe.interpretation = probe.risk_category
          /\ Cardinality({k \in {"low", "moderate", "high"} :
                             probe.risk_category = k}) = 1
    /\ (svc.op = "calculate_risk" /\ svc.status = "ok") =>
          svc.risk_category =
              ThresholdCategory(svc.engine_calls[1].value.relative_risk)

\* a response whose 5-year and lifetime relative risks lie in different
\* bands, categorized by the 5-year one
C11_Witness ==
    /\ svc.op = "calculate_risk" /\ svc.status = "ok"
    /\ svc.risk_category = "moderate"
    /\ svc.engine_calls[1].value.relative_risk >= BScale
    /\ ThresholdCategory(svc.engine_calls[2].value.relative_risk) # "moderate"

(***************************************************************************)
(* SpecProjection: calculate_absolute_risk for one woman and a projection  *)
(* age that grows a year at a time                                         *)
(***************************************************************************)
ProjectionStarts == {20, 35, 47, 50, 63, 85}

\* <<menarche, first birth, relatives, ever had biopsy, biopsies, hyperplasia>>
ProjectionFactors == {<<0, 0, 0, 0, 0, 99>>, <<2, 3, 2, 1, 2, 1>>}

ProjectionQueries ==
    {Params(ca, ca + 1, x[1], x[2], x[3], x[4], x[5], x[6], r) :
        ca \in ProjectionStarts, x \in ProjectionFactors, r \in 1..12}

\* the first call: the projection age one year after the current age
StartProjection ==
    /\ probe.op = "none"
    /\ \E p \in ProjectionQueries :
          \E out \in {calculate_absolute_risk(calc, p)} :
              /\ calc' = out.c
              /\ probe' = [ op |-> "projection", params |-> p,
                            status |-> out.status, risk |-> out.value,
                            shorter |-> 0 ]
    /\ UNCHANGED <<call, ncalls, threads, svc>>

\* the next call: the same query with the projection age a year later
ExtendProjection ==
    /\ probe.op = "projection"
    /\ probe.status = "ok"
    /\ probe.params.projection_age < 90
    /\ \E p \in {[probe.params EXCEPT !.projection_age = @ + 1]} :
          \E out \in {calculate_absolute_risk(calc, p)} :
              /\ calc' = out.c
              /\ probe' = [ op |-> "projection", params |-> p,
                            status |-> out.status, risk |-> out.value,
                            shorter |-> probe.risk ]
    /\ UNCHANGED <<call, ncalls, threads, svc>>

NextProjection ==
    \/ StartProjection
    \/ ExtendProjection

SpecProjection == InitCreated /\ [][NextProjection]_vars

\* C12: with the current age, the race and the factors fixed, the absolute
\* risk for a projection age is never below the absolute risk for the
\* projection age one year earlier, and so never below that of any earlier
\* projection age
C12_MonotoneInProjection ==
    probe.op = "projection" =>
        /\ probe.status = "ok"
        /\ probe.risk >= probe.shorter

\* a window grown from 47 across the age of 50 to 90 with a strictly higher
\* risk than the window one year shorter
C12_Witness ==
    /\ probe.op = "projection"
    /\ probe.params.current_age = 47
    /\ probe.params.projection_age = 90
    /\ probe.params.hyperplasia = 1
    /\ probe.risk > probe.shorter
    /\ probe.shorter > 0

(***************************************************************************)
(* SpecTables: initialize over table literals other than the embedded ones *)
(*   The tables are literals in the body of initialize.  initialize_tables *)
(*   is initialize with two of them, the age boundaries and the first      *)
(*   mortality column, given from outside.                                 *)
(***************************************************************************)
\* self.t = np.array(literal): the attribute is rebound to the new array,
\* whatever its length
AssignT(c, literal) ==
    [c EXCEPT !.t = [i \in 0..(Len(literal) - 1) |-> literal[i + 1]]]

\* self.rmu2[:, 0] = np.array(literal) * 0.00001: numpy stores 14 values or
\* repeats a single one, and raises ValueError for any other length
initialize_tables(c, t_literal, rmu2_literal) ==
    IF Len(rmu2_literal) \notin {1, 14}
    THEN [c |-> AssignT(c, t_literal), status |-> "ValueError"]
    ELSE [ c |-> [AssignT(initialize(c), t_literal) EXCEPT
                     !.rmu2 = [i \in 0..13 |->
                                  [@[i] EXCEPT ![0] =
                                      IF Len(rmu2_literal) = 1
                                      THEN rmu2_literal[1]
                                      ELSE rmu2_literal[i + 1]]]],
           status |-> "ok" ]

\* the embedded boundaries; the same with one boundary replaced; one boundary
\* short; one boundary long
TLiterals ==
    {t_values, SubSeq(t_values, 1, 14), Append(t_values, 95)}
        \cup {[t_values EXCEPT ![k] = v] : k \in 1..15, v \in {20, 50, 95}}

\* the embedded column; one value short; one value long; a single value
Rmu2Literals ==
    {rmu2_col0, SubSeq(rmu2_col0, 1, 13), Append(rmu2_col0, 14491), <<49>>}

InitializeTables ==
    /\ ~calc.is_initialized
    /\ probe.op = "none"
    /\ \E t_literal \in TLiterals, rmu2_literal \in Rmu2Literals :
          \E out \in {initialize_tables(calc, t_literal, rmu2_literal)} :
              /\ calc' = out.c
              /\ probe' = [ op |-> "initialize", t_literal |-> t_literal,
                            rmu2_literal |-> rmu2_literal,
                            status |-> out.status ]
    /\ UNCHANGED <<call, ncalls, threads, svc>>

NextTables == InitializeTables

SpecTables == Init /\ [][NextTables]_vars

StrictlyIncreasing(q) == \A k \in 1..(Len(q) - 1) : q[k] < q[k + 1]

ApplyDesignRow ==
    /\ \E k \in 0..(NumCovPattInGailModel - 1) :
          probe' = [ op |-> "design_row", k |-> k, row |-> r8iTox2[k],
                     ilev |-> k + 1, tuple |-> DecodeIndex(k + 1),
                     written |-> WrittenColumns[k] ]
    /\ UNCHANGED <<calc, call, ncalls, threads, svc>>

\* the row the engine selects for a category tuple: ilev from the indexer,
\* the row from the matrix the loops built
ApplyRowOfTuple ==
    /\ \E x \in CategoryTuples :
          \E ilev \in {IndexOf(x)} :
              probe' = [ op |-> "tuple_row", tuple |-> x, ilev |-> ilev,
                         row |-> r8iTox2[ilev - 1],
                         written |-> WrittenColumns[ilev - 1] ]
    /\ UNCHANGED <<calc, call, ncalls, threads, svc>>

NextDesign == ApplyDesignRow \/ ApplyRowOfTuple

SpecDesign == InitCreated /\ [][NextDesign]_vars

\* positions 1..8 of a row, the ones the dot product with the coefficients uses
DesignVector(row) == [j \in 1..8 |-> row[j - 1]]

\* C14 as stated: the design vector of a pattern is {1, ageIndicator,
\* menarche, biopsyCount, firstBirth, relatives, menarche*biopsyCount,
\* firstBirth*relatives} of its decoded tuple
C14_DesignVectorAsStated ==
    probe.op = "design_row" =>
        LET x == probe.tuple
        IN  DesignVector(probe.row) =
                <<1, x[1], x[2], x[3], x[4], x[5], x[2] * x[3], x[4] * x[5]>>

\* C14 amended: the design vector of a pattern is {1, ageIndicator, menarche,
\* biopsyCount, firstBirth, relatives, ageIndicator*biopsyCount,
\* firstBirth*relatives} of its decoded tuple: position 7 is the product of
\* the age indicator and the biopsy-count category
C14_DesignVector ==
    probe.op = "design_row" =>
        LET x == probe.tuple
        IN  DesignVector(probe.row) =
                <<1, x[1], x[2], x[3], x[4], x[5], x[1] * x[3], x[4] * x[5]>>

\* a pattern below 50 with menarche and biopsy categories 2: position 7 is 0,
\* not 4, and position 8 is 3 * 2
C14_Witness ==
    /\ probe.op = "design_row"
    /\ probe.tuple = <<0, 2, 2, 3, 2>>
    /\ probe.row[6] = 0
    /\ probe.row[7] = 6

\* C15: the block loops agree with the pattern indexer: the row at
\* index(a, m, b, f, r) - 1 holds a, m, b, f, r in positions 2..6, and every
\* one of the 216 rows has its positions 1..6 assigned by a loop
C15_LoopsAgreeWithIndexer ==
    /\ probe.op = "tuple_row" =>
          /\ probe.ilev \in 1..NumCovPattInGailModel
          /\ [j \in 1..5 |-> probe.row[j]] = probe.tuple
          /\ probe.row[0] = 1
    /\ probe.op \in {"tuple_row", "design_row"} => probe.written = 0..5

\* the last tuple, whose row is the last one every loop reaches
C15_Witness ==
    /\ probe.op = "tuple_row"
    /\ probe.tuple = <<1, 2, 2, 3, 2>>
    /\ probe.ilev = NumCovPattInGailModel
    /\ probe.row[4] = 3
    /\ 4 \in probe.written

(***************************************************************************)
(* SpecPredictors: the predictors sumb and sumbb of _calculate_risk, for   *)
(* the coefficient columns of bet2 and for other coefficient vectors       *)
(***************************************************************************)
BetVectors ==
    {bet2_col0, bet2_col1, asian_beta,
     <<-300000, 500000, 0, 0, 0, 0, 0, 0>>,
     <<123456, -654321, 111111, -222222, 333333, 444444, -555555, 666666>>}

\* a query whose predictors are computed; sumb and sumbb do not depend on it
PredictorQuery == Params(45, 60, 1, 2, 1, 1, 1, 1, 1)

\* the blocks of _calculate_risk run from x until the block named pc is next
RECURSIVE RunTo(_, _)
RunTo(x, pc) ==
    IF x.f.pc \in {pc, "done", "raised"} THEN x ELSE RunTo(Step(x), pc)

\* lines 603-612 run with the coefficients v in self.bet
ApplyPredictors ==
    /\ probe.op = "none"
    /\ \E v \in BetVectors :
          \E out \in {Predictors([ c |-> [calc EXCEPT !.bet = [i \in 0..7 |-> v[i + 1]]],
                                   f |-> [calculate_risk_api(1, PredictorQuery)
                                             EXCEPT !.pc = "predictors"] ])} :
              \E k \in 1..NumCovPattInGailModel :
                  probe' = [ op |-> "predictors", bet |-> out.c.bet, k |-> k,
                             sumb |-> out.c.sumb[k - 1],
                             sumbb |-> out.c.sumbb[k - 1] ]
    /\ UNCHANGED <<calc, call, ncalls, threads, svc>>

\* <<current age, projection age>>: below 50 crossing it, and above 50
HypWindows == {<<45, 60>>, <<55, 60>>}

\* <<ever had biopsy, biopsies, hyperplasia>>
HypBiopsies ==
    {<<0, 0, 99>>, <<1, 1, 1>>, <<1, 1, 0>>, <<1, 1, 99>>, <<1, 2, 1>>, <<1, 2, 0>>}

HypQueries ==
    {Params(w[1], w[2], m, fb, rel, b[1], b[2], b[3], 1) :
        w \in HypWindows, m \in 0..2, fb \in 0..3, rel \in 0..2, b \in HypBiopsies}

\* an absolute-risk call run up to lines 619-622, then those lines
ApplyHyperplasia ==
    /\ probe.op = "none"
    /\ \E p \in HypQueries :
          \E x \in {RunTo([c |-> calc, f |-> calculate_risk_api(1, p)], "hyperplasia")} :
              \E y \in {Hyperplasia(x)} :
                  probe' = [ op |-> "hyperplasia", params |-> p,
                             ilev |-> x.f.ilev, rhyp |-> x.f.rhyp,
                             pc |-> y.f.pc,
                             before |-> x.c.sumbb, after |-> y.c.sumbb ]
    /\ UNCHANGED <<calc, call, ncalls, threads, svc>>

NextPredictors == ApplyPredictors \/ ApplyHyperplasia

SpecPredictors == InitCreated /\ [][NextPredictors]_vars

\* the dot product of 8 coefficients with the design vector of pattern k
DotDesign(bet, k) ==
    LET x == DecodeIndex(k)
    IN  bet[0] + bet[1] * x[1] + bet[2] * x[2] + bet[3] * x[3] + bet[4] * x[4]
          + bet[5] * x[5] + bet[6] * x[1] * x[3] + bet[7] * x[4] * x[5]

\* C16: the centered predictor of pattern k is the dot product of the 8
\* coefficients with the pattern's design vector, minus the intercept for k in
\* 1..108 and minus intercept and age-indicator coefficient for k in 109..216;
\* patterns 1 and 109 have centered predictor 0 for every coefficient vector
C16_CenteredPredictor ==
    probe.op = "predictors" =>
        /\ probe.sumb = DotDesign(probe.bet, probe.k)
        /\ probe.k \in 1..108 => probe.sumbb = probe.sumb - probe.bet[0]
        /\ probe.k \in 109..216 =>
              probe.sumbb = probe.sumb - (probe.bet[0] + probe.bet[1])
        /\ probe.k \in {1, 109} => probe.sumbb = 0

\* pattern 109 under coefficients whose intercept and age-indicator
\* coefficient are both nonzero
C16_Witness ==
    /\ probe.op = "predictors"
    /\ probe.k = 109
    /\ probe.bet[0] # 0
    /\ probe.bet[1] # 0
    /\ probe.sumb = probe.bet[0] + probe.bet[1]
    /\ probe.sumbb = 0

\* the patterns whose centered predictor lines 619-622 changed
ChangedPatterns == {k \in 1..NumCovPattInGailModel : probe.after[k - 1] # probe.before[k - 1]}

\* C17 as stated: with a non-neutral multiplier its logarithm is added at the
\* pattern index and at the mirror index, index + 108 for an index in 1..108
\* and index - 108 for an index in 109..216, and nowhere else
C17_MirrorBothWays ==
    (probe.op = "hyperplasia" /\ probe.rhyp # 100) =>
        LET i == probe.ilev
            mirror == IF i <= 108 THEN i + 108 ELSE i - 108
        IN  /\ ChangedPatterns = {i, mirror}
            /\ \A k \in {i, mirror} :
                  probe.after[k - 1] = probe.before[k - 1] + LogHyp(probe.rhyp)

\* C17 amended: with a non-neutral multiplier its logarithm is added at the
\* pattern index, and at index + 108 when the index is in 1..108; for an
\* index in 109..216 only the index itself is changed.  No other pattern's
\* predictor is changed
C17_MirrorUpwardOnly ==
    (probe.op = "hyperplasia" /\ probe.rhyp # 100) =>
        LET i == probe.ilev
            touched == IF i <= 108 THEN {i, i + 108} ELSE {i}
        IN  /\ probe.pc = "integrate"
            /\ ChangedPatterns = touched
            /\ \A k \in touched :
                  probe.after[k - 1] = probe.before[k - 1] + LogHyp(probe.rhyp)

\* a query below 50 with hyperplasia: the pattern and its mirror both move by
\* log(1.82)
C17_Witness ==
    /\ probe.op = "hyperplasia"
    /\ probe.rhyp = 182
    /\ probe.ilev <= 108
    /\ ChangedPatterns = {probe.ilev, probe.ilev + 108}
    /\ probe.after[probe.ilev + 107] - probe.before[probe.ilev + 107] = LogHyp(182)

(***************************************************************************)
(* SpecCleaning: the cleaning of the biopsy, hyperplasia and relatives     *)
(* inputs by the engine, alone and after the questionnaire mapper          *)
(***************************************************************************)
EverCodes == {0, 1, 99}

BiopsyCounts == (0..30) \cup {99}

HyperplasiaCodes == {0, 1, 2, 99}

Answers == {"yes", "no", "unknown"}

\* Optional[int] = Field(None, ge=1, le=30)
BiopsyAnswers == {<<>>} \cup {<<n>> : n \in 1..30}

ApplyCleanBiopsy ==
    /\ probe.op = "none"
    /\ \E ever \in EverCodes, num \in BiopsyCounts, hyp \in HyperplasiaCodes :
          probe' = [ op |-> "clean_biopsy", ever |-> ever, num |-> num, hyp |-> hyp,
                     cleaned |-> clean_biopsy_inputs(ever, num, hyp) ]
    /\ UNCHANGED <<calc, call, ncalls, threads, svc>>

\* the mapper's codes for the biopsy answers, then the engine's cleaning
ApplyMapBiopsy ==
    /\ probe.op = "none"
    /\ \E ever \in Answers, num \in BiopsyAnswers, hyp \in Answers :
          \E e \in {map_biopsy_status(ever)} :
              \E n \in {map_number_of_biopsies(ever, num)} :
                  \E h \in {map_hyperplasia(hyp, ever)} :
                      \E c \in {clean_biopsy_inputs(e, n, h)} :
                          probe' = [ op |-> "map_biopsy", ever |-> ever, num |-> num,
                                     hyp |-> hyp, mapped |-> <<e, n, h>>,
                                     cleaned |-> c, rhyp |-> real_hyp(c[3]) ]
    /\ UNCHANGED <<calc, call, ncalls, threads, svc>>

\* <<current age, projection age>>
MultiplierWindows == {<<45, 60>>, <<55, 60>>}

MultiplierCounts == {0, 1, 2, 99}

MultiplierQueries ==
    {Params(w[1], w[2], 1, 1, 1, ever, num, hyp, 1) :
        w \in MultiplierWindows, ever \in EverCodes, num \in MultiplierCounts,
        hyp \in HyperplasiaCodes}

\* the pattern index of the query with its hyperplasia code replaced by h
IlevWithHyperplasia(c, risk_index, params, h) ==
    RunTo([c |-> c, f |-> calculate_risk_api(risk_index,
                              [params EXCEPT !.hyperplasia = h])], "scale").f.ilev

\* a call followed to lines 619-622: the multiplier _calculate_risk_api
\* passes, the one those lines use, and the pattern index under each
\* hyperplasia code
ApplyMultiplier ==
    /\ probe.op = "none"
    /\ \E risk_index \in 1..2, p \in MultiplierQueries :
          \E entry \in {calculate_risk_api(risk_index, p)} :
              \E x \in {RunTo([c |-> calc, f |-> entry], "hyperplasia")} :
                  probe' = [ op |-> "multiplier", risk_index |-> risk_index,
                             params |-> p,
                             ever |-> entry.EverHadBiopsy, ihyp |-> entry.ihyp,
                             passed |-> entry.rhyp,
                             pc |-> x.f.pc, used |-> x.f.rhyp, ilev |-> x.f.ilev,
                             ilevs |-> [h \in HyperplasiaCodes |->
                                          IlevWithHyperplasia(calc, risk_index, p, h)] ]
    /\ UNCHANGED <<calc, call, ncalls, threads, svc>>

\* relative counts the engine may be handed: 0..33 and the unknown code
RelativeCounts == (0..33) \cup {99}

\* lines 489-494 on a count and a race
ApplyCleanRelatives ==
    /\ probe.op = "none"
    /\ \E n \in RelativeCounts, race \in 1..12 :
          probe' = [ op |-> "clean_relatives", n |-> n, race |-> race,
                     cleaned |-> clean_relatives(n, race) ]
    /\ UNCHANGED <<calc, call, ncalls, threads, svc>>

\* int = Field(0, ge=0, le=10)
MaxRelatives == 10

\* a questionnaire count through map_relatives and then lines 489-494, and
\* through lines 489-494 alone
ApplyMapRelatives ==
    /\ probe.op = "none"
    /\ \E n \in 0..MaxRelatives, race \in 1..12 :
          \E mapped \in {map_relatives(n, race)} :
              probe' = [ op |-> "map_relatives", n |-> n, race |-> race,
                         mapped |-> mapped,
                         cleaned |-> clean_relatives(mapped, race),
                         alone |-> clean_relatives(n, race) ]
    /\ UNCHANGED <<calc, call, ncalls, threads, svc>>

NextCleaning ==
    \/ ApplyCleanBiopsy
    \/ ApplyMapBiopsy
    \/ ApplyMultiplier
    \/ ApplyCleanRelatives
    \/ ApplyMapRelatives

SpecCleaning == InitCreated /\ [][NextCleaning]_vars

\* C18: clean_biopsy_inputs, for ever-had-biopsy in {0, 1, 99}, a count in
\* 0..30 or 99 and any hyperplasia code: unknown ever-had-biopsy becomes no;
\* had-biopsy with unknown count gives 1; never-had-biopsy gives 0; a count in
\* (1, 30] becomes 2; hyperplasia is 99 whenever the cleaned ever-had-biopsy
\* is no; the cleaned ever-had-biopsy is 0 or 1 and the cleaned count 0, 1 or
\* 2, also for the codes the mapper produces
C18_BiopsyCleaning ==
    /\ probe.op = "clean_biopsy" =>
          LET ever == probe.cleaned[1]
              num == probe.cleaned[2]
              hyp == probe.cleaned[3]
          IN  /\ probe.ever = 99 => ever = 0
              /\ probe.ever # 99 => ever = probe.ever
              /\ (probe.ever = 1 /\ probe.num = 99) => num = 1
              /\ ever = 0 => num = 0
              /\ (ever = 1 /\ probe.num \in 2..30) => num = 2
              /\ (ever = 1 /\ probe.num \in 0..1) => num = probe.num
              /\ ever = 0 => hyp = 99
              /\ ever = 1 => hyp = probe.hyp
              /\ ever \in {0, 1}
              /\ num \in {0, 1, 2}
    /\ probe.op = "map_biopsy" =>
          /\ probe.cleaned[1] \in {0, 1}
          /\ probe.cleaned[2] \in {0, 1, 2}
          /\ probe.cleaned[1] = 0 => (probe.cleaned[2] = 0 /\ probe.cleaned[3] = 99)
          /\ (probe.ever = "yes" /\ probe.num = <<>>) => probe.cleaned[2] = 1

\* had a biopsy, 30 of them: the count becomes category 2 and the hyperplasia
\* code is kept
C18_Witness ==
    /\ probe.op = "clean_biopsy"
    /\ probe.ever = 1
    /\ probe.num = 30
    /\ probe.hyp = 1
    /\ probe.cleaned = <<1, 2, 1>>

\* C19: the hyperplasia multiplier is 1.82 exactly when the cleaned inputs
\* say biopsy yes and hyperplasia yes, 0.93 exactly when they say biopsy yes
\* and hyperplasia no, and 1.0 in every other case, including every query
\* whose ever-had-biopsy is no or unknown whatever hyperplasia was supplied;
\* an absolute-risk calculation uses the multiplier as passed; the pattern
\* index is the same under every hyperplasia code
C19_HyperplasiaMultiplier ==
    /\ probe.op = "multiplier" =>
          /\ probe.passed = 182 <=> (probe.ever = 1 /\ probe.ihyp = 1)
          /\ probe.passed = 93 <=> (probe.ever = 1 /\ probe.ihyp = 0)
          /\ probe.passed \in {182, 93, 100}
          /\ probe.params.ever_had_biopsy \in {0, 99} => probe.passed = 100
          /\ probe.pc = "hyperplasia"
          /\ probe.risk_index = 1 => probe.used = probe.passed
          /\ \A h \in HyperplasiaCodes : probe.ilevs[h] = probe.ilev
    /\ probe.op = "map_biopsy" =>
          /\ probe.rhyp = 182 <=> (probe.ever = "yes" /\ probe.hyp = "yes")
          /\ probe.rhyp = 93 <=> (probe.ever = "yes" /\ probe.hyp = "no")
          /\ probe.rhyp \in {182, 93, 100}

\* an absolute-risk query with biopsy unknown and hyperplasia yes supplied:
\* the multiplier passed and used is 1.0
C19_Witness ==
    /\ probe.op = "multiplier"
    /\ probe.risk_index = 1
    /\ probe.params.hyperplasia = 1
    /\ probe.params.ever_had_biopsy = 99
    /\ probe.ihyp = 99
    /\ probe.used = 100

\* C20: relative-count cleaning: 0 or unknown (99) becomes 0 for every race;
\* 1 stays 1; a count in 2..31 with a race below 7 becomes 2; a count of 2 or
\* more with a race in 7..12 becomes 1; so a race in 7..12 never reaches
\* category 2, and map_relatives followed by the cleaning gives what the
\* cleaning alone gives
C20_RelativesCleaning ==
    /\ probe.op = "clean_relatives" =>
          /\ probe.n \in {0, 99} => probe.cleaned = 0
          /\ probe.n = 1 => probe.cleaned = 1
          /\ (probe.n \in 2..31 /\ probe.race < 7) => probe.cleaned = 2
          /\ (probe.n >= 2 /\ probe.n # 99 /\ probe.race \in 7..12) => probe.cleaned = 1
          /\ probe.race \in 7..12 => probe.cleaned \in {0, 1}
    /\ probe.op = "map_relatives" =>
          /\ probe.cleaned = probe.alone
          /\ probe.race \in 7..12 => probe.cleaned \in {0, 1}

\* three relatives reported by a questionnaire of an Asian subgroup: the
\* mapper caps at 1 and the cleaning keeps 1, as the cleaning alone gives
C20_Witness ==
    /\ probe.op = "map_relatives"
    /\ probe.n = 3
    /\ probe.race = 8
    /\ probe.mapped = 1
    /\ probe.cleaned = 1
    /\ probe.alone = 1

(***************************************************************************)
(* SpecRecode: the categories of an absolute-risk call before and after    *)
(* lines 524-527, and the pattern index of lines 563-564                   *)
(***************************************************************************)
\* the five categories of a frame
Categories(f) ==
    <<f.AgeIndicator, f.MenarcheAge, f.NumberOfBiopsy, f.FirstLiveBirthAge,
      f.FirstDegRelatives>>

RecodeQueries ==
    {Params(w[1], w[2], m, fb, rel, 1, 1, 99, race) :
        w \in {<<45, 60>>, <<55, 60>>}, m \in 0..2, fb \in 0..3, rel \in 0..1,
        race \in 1..12}

ApplyRecode ==
    /\ probe.op = "none"
    /\ \E p \in RecodeQueries :
          \E entry \in {calculate_risk_api(1, p)} :
              \E x \in {SelectBeta([c |-> calc, f |-> entry])} :
                  \E y \in {RunTo(x, "scale")} :
                      probe' = [ op |-> "recode", params |-> p,
                                 before |-> Categories(entry),
                                 after |-> Categories(x.f),
                                 pc |-> y.f.pc, ilev |-> y.f.ilev ]
    /\ UNCHANGED <<calc, call, ncalls, threads, svc>>

NextRecode == ApplyRecode

SpecRecode == InitCreated /\ [][NextRecode]_vars

\* C21: for race code 2 and menarche category 2 only, menarche is recoded to
\* 1 and first birth to 0 before the pattern index is computed; for every
\* other race code, and for race 2 with menarche 0 or 1, the step changes no
\* category
C21_LegacyRecode ==
    probe.op = "recode" =>
        /\ probe.pc = "scale"
        /\ probe.ilev = IndexOf(probe.after)
        /\ IF probe.params.race = 2 /\ probe.params.menarche_age = 2
           THEN probe.after = <<probe.before[1], 1, probe.before[3], 0, probe.before[5]>>
           ELSE probe.after = probe.before

\* race 2, menarche 2, first birth 3: the index is that of menarche 1 and
\* first birth 0
C21_Witness ==
    /\ probe.op = "recode"
    /\ probe.params.race = 2
    /\ probe.before = <<0, 2, 1, 3, 1>>
    /\ probe.after = <<0, 1, 1, 0, 1>>
    /\ probe.ilev = 50

(***************************************************************************)
(* SpecRates: the columns of the rate tables and the attributable-risk     *)
(* pair that lines 542-554 load, by risk mode and race                     *)
(***************************************************************************)
RateWindows == {<<35, 40>>, <<40, 45>>, <<45, 60>>, <<55, 60>>, <<60, 70>>}

RateQueries ==
    {Params(w[1], w[2], 1, 1, 1, 1, 1, 1, race) : w \in RateWindows, race \in 1..12}

ApplyLoadRates ==
    /\ probe.op = "none"
    /\ \E risk_index \in 1..2, p \in RateQueries :
          \E x \in {RunTo([c |-> calc, f |-> calculate_risk_api(risk_index, p)],
                          "predictors")} :
              probe' = [ op |-> "load_rates", risk_index |-> risk_index,
                         params |-> p, race |-> p.race, pc |-> x.f.pc,
                         cindx |-> x.f.cindx,
                         rmu |-> x.c.rmu, rlan |-> x.c.rlan, rf |-> x.c.rf ]
    /\ UNCHANGED <<calc, call, ncalls, threads, svc>>

\* race and sub_race as the questionnaire admits them: race 1..5, sub_race
\* None or 7..12 and given only with race 4
RaceAnswers ==
    {<<race, <<>>>> : race \in 1..5} \cup {<<4, <<sub>>>> : sub \in 7..12}

\* the race code of a questionnaire, then the columns the absolute and the
\* average computation of calculate_full_risk load for it
ApplyMappedRates ==
    /\ probe.op = "none"
    /\ \E a \in RaceAnswers, w \in RateWindows :
          \E race \in {map_race(a[1], a[2])} :
              \E p \in {Params(w[1], w[2], 1, 1, 1, 1, 1, 1, race)} :
                  \E x \in {RunTo([c |-> calc, f |-> calculate_risk_api(1, p)],
                                  "predictors")} :
                      \E y \in {RunTo([c |-> calc, f |-> calculate_risk_api(2, p)],
                                      "predictors")} :
                          probe' = [ op |-> "mapped_rates", answer |-> a,
                                     params |-> p, race |-> race,
                                     absolute |-> [cindx |-> x.f.cindx, rmu |-> x.c.rmu,
                                                   rlan |-> x.c.rlan, rf |-> x.c.rf],
                                     average |-> [cindx |-> y.f.cindx, rmu |-> y.c.rmu,
                                                  rlan |-> y.c.rlan, rf |-> y.c.rf] ]
    /\ UNCHANGED <<calc, call, ncalls, threads, svc>>

NextRates == ApplyLoadRates \/ ApplyMappedRates

SpecRates == InitCreated /\ [][NextRates]_vars

\* column col of a table of 14 rows, and of the attributable-risk table
RateColumn(table, col) == [i \in 0..13 |-> table[i][col]]

PairColumn(col) == [i \in 0..1 |-> calc.rf2[i][col]]

\* C22: in average mode a race in 7..12 uses the shared attributable-risk
\* pair of table column 13 (index 12), not its own pair, and still reads its
\* own incidence and mortality columns; in absolute mode it uses its own pair
C22_SharedPairInAverageMode ==
    (probe.op = "load_rates" /\ probe.race \in 7..12) =>
        /\ probe.pc = "predictors"
        /\ probe.rmu = RateColumn(calc.rmu2, probe.race - 1)
        /\ probe.rlan = RateColumn(calc.rlan2, probe.race - 1)
        /\ probe.risk_index = 2 =>
              (probe.rf = PairColumn(12) /\ probe.rf # PairColumn(probe.race - 1))
        /\ probe.risk_index = 1 => probe.rf = PairColumn(probe.race - 1)

\* the average-risk call of a Japanese query: the pair is (1.0, 1.0) and the
\* incidence is the Japanese column
C22_Witness ==
    /\ probe.op = "load_rates"
    /\ probe.risk_index = 2
    /\ probe.race = 8
    /\ probe.rf = [i \in 0..1 |-> PScale]
    /\ probe.rlan = RateColumn(calc.rlan2, 7)
    /\ probe.rlan # RateColumn(calc.rlan2, 6)

\* the race group a column of rmu2 and rlan2 belongs to, named by the race
\* code of the group: White/Other and its average, African American and its
\* average, Hispanic and its average, and the six Asian subgroups
ColumnGroup(col) ==
    CASE col \in {0, 3} -> 1
      [] col \in {1, 4} -> 2
      [] col \in {2, 5} -> 3
      [] col \in 6..11 -> col + 1

\* C23: for every race code map_race can return, the average-risk
\* computation reads incidence and mortality columns of the same race group
\* as the absolute-risk computation of that query
C23_AverageColumnsSameGroup ==
    probe.op = "mapped_rates" =>
        ColumnGroup(probe.average.cindx) = ColumnGroup(probe.absolute.cindx)

(***************************************************************************)
(* SpecBands: the bands ni and ns of lines 529-540 and the terms the       *)
(* integration of lines 624-698 forms from them, for all valid ages        *)
(***************************************************************************)
BandQueries ==
    UNION {{Params(ca, pa, 1, 1, 1, 1, 1, 1, 1) : pa \in (ca + 1)..90} : ca \in 20..85}

\* the predictor indices a sequence of terms reads
PredictorsRead(terms) ==
    UNION {{terms[n].ev.pred} \cup {terms[n].surv[k].pred : k \in 1..Len(terms[n].surv)} :
              n \in 1..Len(terms)}

\* a call followed to the integration: the bands, the categories behind the
\* pattern index, the terms lines 624-698 form, the predictors they read
\* before and after lines 619-622, the value of each term and the result
BandProbe(risk_index, p) ==
    With(RunTo([c |-> calc, f |-> calculate_risk_api(risk_index, p)], "hyperplasia"),
         LAMBDA h :
            With(Step(h),
                 LAMBDA x :
                    With(IntegrationTerms(x.c, x.f),
                         LAMBDA terms :
                            [ op |-> "bands", risk_index |-> risk_index,
                              params |-> p, pc |-> x.f.pc,
                              ni |-> x.f.ni, ns |-> x.f.ns,
                              categories |-> Categories(x.f),
                              ilev |-> x.f.ilev, rhyp |-> x.f.rhyp,
                              terms |-> terms,
                              events |-> [n \in 1..Len(terms) |-> terms[n].ev],
                              survivals |-> [n \in 1..Len(terms) |-> Len(terms[n].surv)],
                              base |-> [q \in PredictorsRead(terms) |-> h.c.sumbb[q]],
                              adjusted |-> [q \in PredictorsRead(terms) |-> x.c.sumbb[q]],
                              values |-> [n \in 1..Len(terms) |-> TermValue(x.c, terms[n])],
                              ret |-> Step(x).f.ret ])))

\* an absolute-risk call for each valid pair of ages
ApplyBands ==
    /\ probe.op = "none"
    /\ \E p \in BandQueries : probe' = BandProbe(1, p)
    /\ UNCHANGED <<calc, call, ncalls, threads, svc>>

\* <<current age, projection age>>: below 50, up to 50, across 50, from 50 on
IntegrationWindows ==
    {<<35, 40>>, <<35, 48>>, <<45, 50>>, <<40, 50>>, <<45, 51>>, <<40, 60>>,
     <<49, 90>>, <<50, 55>>, <<50, 90>>, <<55, 70>>, <<20, 90>>}

\* <<menarche, first birth, relatives, ever had biopsy, biopsies, hyperplasia>>
IntegrationFactors ==
    {<<0, 0, 0, 0, 0, 99>>, <<2, 3, 2, 1, 2, 1>>, <<1, 2, 1, 1, 1, 0>>}

IntegrationQueries ==
    {Params(w[1], w[2], x[1], x[2], x[3], x[4], x[5], x[6], race) :
        w \in IntegrationWindows, x \in IntegrationFactors, race \in {1, 2, 8}}

\* a call in either mode for windows on both sides of 50 and across it
ApplyIntegration ==
    /\ probe.op = "none"
    /\ \E risk_index \in 1..2, p \in IntegrationQueries :
          probe' = BandProbe(risk_index, p)
    /\ UNCHANGED <<calc, call, ncalls, threads, svc>>

NextBands == ApplyBands \/ ApplyIntegration

SpecBands == InitCreated /\ [][NextBands]_vars

\* the single-band formula: one term, over the band ni, from the current to
\* the projection age, with no survival factor
SingleBand ==
    /\ Len(probe.events) = 1
    /\ probe.events[1].band = probe.ni
    /\ probe.events[1].width = probe.params.projection_age - probe.params.current_age
    /\ probe.survivals[1] = 0

\* C24: for all valid integer ages the start band ni satisfies
\* t[ni-1] <= current < t[ni], the end band ns satisfies
\* t[ns-1] < projection <= t[ns], and 1 <= ni <= ns <= 14; the single-band
\* formula is used exactly when ns = ni
C24_BandLocation ==
    probe.op = "bands" =>
        LET ni == probe.ni
            ns == probe.ns
        IN  /\ probe.pc = "integrate"
            /\ 1 <= ni /\ ni <= ns /\ ns <= 14
            /\ calc.t[ni - 1] <= probe.params.current_age
            /\ probe.params.current_age < calc.t[ni]
            /\ calc.t[ns - 1] < probe.params.projection_age
            /\ probe.params.projection_age <= calc.t[ns]
            /\ SingleBand <=> (ns = ni)
            /\ ns > ni => Len(probe.events) = ns - ni + 1

\* a projection that ends on a boundary: 21 to 25 stays in band 1 and uses
\* the single-band formula
C24_Witness ==
    /\ probe.op = "bands"
    /\ probe.params.current_age = 21
    /\ probe.params.projection_age = 25
    /\ probe.ni = 1
    /\ probe.ns = 1
    /\ SingleBand

(***************************************************************************)
(* The incidence left on the calculator by the last call of Spec           *)
(***************************************************************************)
LastCall == call[Len(call)]

LastFrame == LastCall.frames[Len(LastCall.frames)]

\* C25: in every calculation each band's baseline incidence is scaled exactly
\* once by a scalar of the selected attributable-risk column, the below-50
\* scalar for the bands whose lower bound is below 50 and the other for the
\* bands whose lower bound is 50 or more; the scaling does not accumulate
\* from one call to the next
C25_IncidenceScaledOnce ==
    (Len(call) >= 1 /\ LastCall.status = "ok") =>
        LET f == LastFrame
            pair == IF f.riskindex = 2 /\ f.irace >= 7 THEN 12 ELSE f.cindx
        IN  /\ \A i \in 0..1 : calc.rf[i] = calc.rf2[i][pair]
            /\ \A j \in 0..13 :
                  calc.rlan[j] =
                      MulP(calc.rlan2[j][f.cindx],
                           calc.rf2[IF calc.t[j] < 50 THEN 0 ELSE 1][pair])

\* a second absolute-risk call for race 1 after a first one: the incidence
\* is the table's scaled once by 0.5788, not twice
C25_Witness ==
    /\ Len(call) = 2
    /\ call[1].status = "ok" /\ call[2].status = "ok"
    /\ call[1].op = "calculate_absolute_risk"
    /\ call[2].op = "calculate_absolute_risk"
    /\ call[1].params.race = 1 /\ call[2].params.race = 1
    /\ calc.rf[0] < PScale
    /\ calc.rlan[5] = MulP(calc.rlan2[5][0], calc.rf[0])
    /\ calc.rlan[5] # MulP(MulP(calc.rlan2[5][0], calc.rf[0]), calc.rf[0])

\* the factors of the terms of the integration, event and survival alike
AllFactors ==
    UNION {{probe.terms[n].ev} \cup
           {probe.terms[n].surv[k] : k \in 1..Len(probe.terms[n].surv)} :
              n \in 1..Len(probe.terms)}

\* the pattern of the query's categories with age indicator a, as an index
\* into sumbb
PatternWithAge(a) ==
    IndexOf(<<a, probe.categories[2], probe.categories[3], probe.categories[4],
              probe.categories[5]>>) - 1

\* C26: in every event term and every survival factor a band whose lower
\* bound is below 50 is evaluated with the predictor of the ageIndicator = 0
\* pattern and a band whose lower bound is 50 or more with that of the
\* ageIndicator = 1 pattern, for the query's menarche, biopsy, first-birth
\* and relatives categories, the hyperplasia log-adjustment included
C26_PredictorByBand ==
    probe.op = "bands" =>
        /\ probe.pc = "integrate"
        /\ \A fac \in AllFactors :
              fac.pred = PatternWithAge(IF calc.t[fac.band - 1] < 50 THEN 0 ELSE 1)
        /\ \A q \in DOMAIN probe.adjusted :
              probe.adjusted[q] = probe.base[q] + LogHyp(probe.rhyp)

\* a window across 50 with hyperplasia: bands below 50 read pattern 107,
\* bands from 50 on its mirror 215, both moved by log(1.82)
C26_Witness ==
    /\ probe.op = "bands"
    /\ probe.risk_index = 1
    /\ probe.params.current_age = 40 /\ probe.params.projection_age = 60
    /\ probe.rhyp = 182
    /\ probe.ilev = 108
    /\ DOMAIN probe.adjusted = {107, 215}
    /\ probe.adjusted[215] = probe.base[215] + LogHyp(182)
    /\ \E fac \in AllFactors : fac.band = 7 /\ fac.pred = 215
    /\ \E fac \in AllFactors : fac.band = 6 /\ fac.pred = 107

\* the part of band k inside [currentAge, projectionAge]
CoveredWidth(k) ==
    LET hi == IF probe.params.projection_age < calc.t[k]
              THEN probe.params.projection_age ELSE calc.t[k]
        lo == IF probe.params.current_age > calc.t[k - 1]
              THEN probe.params.current_age ELSE calc.t[k - 1]
    IN  hi - lo

RECURSIVE SumTo(_, _)
SumTo(q, n) == IF n = 0 THEN 0 ELSE SumTo(q, n - 1) + q[n]

\* C27: the result is the sum of exactly one event term per band k in
\* ni..ns; term k covers the part of band k inside [currentAge,
\* projectionAge] and is multiplied by the survival factors of exactly the
\* bands ni..k-1, each over its covered width; the covered widths add up to
\* projectionAge - currentAge, and when ns = ni the result is the single term
\* over projectionAge - currentAge
C27_OneTermPerBand ==
    probe.op = "bands" =>
        LET n == Len(probe.terms)
            width == probe.params.projection_age - probe.params.current_age
        IN  /\ n = probe.ns - probe.ni + 1
            /\ {probe.terms[m].ev.band : m \in 1..n} = probe.ni..probe.ns
            /\ \A m \in 1..n :
                  LET term == probe.terms[m]
                      k == term.ev.band
                  IN  /\ term.ev.width = CoveredWidth(k)
                      /\ Len(term.surv) = k - probe.ni
                      /\ {term.surv[j].band : j \in 1..Len(term.surv)} = probe.ni..(k - 1)
                      /\ \A j \in 1..Len(term.surv) :
                            term.surv[j].width = CoveredWidth(term.surv[j].band)
            /\ SumTo([m \in 1..n |-> probe.terms[m].ev.width], n) = width
            /\ probe.ret = SumTo(probe.values, n)
            /\ probe.ns = probe.ni =>
                  (probe.terms[1].ev.width = width /\ probe.ret = probe.values[1])

\* 23 to 68: ten terms, the one of band 5 behind the survival of bands 1..4,
\* the first over the 2 years left of band 1
C27_Witness ==
    /\ probe.op = "bands"
    /\ probe.params.current_age = 23 /\ probe.params.projection_age = 68
    /\ probe.ni = 1 /\ probe.ns = 10
    /\ Len(probe.terms) = 10
    /\ \E m \in 1..10 :
          /\ probe.terms[m].ev.band = 5
          /\ Len(probe.terms[m].surv) = 4
          /\ probe.terms[m].surv[1].width = 2
    /\ probe.ret > 0

\* C28: calculate_absolute_risk, calculate_average_risk and
\* calculate_full_risk leave every attribute of the calculator as it was
\* before the call
C28_CallsLeaveCalculatorUntouched ==
    \A n \in 1..Len(call) :
        call[n].status = "ok" => call[n].untouched

(***************************************************************************)
(* SpecSequence: calls one after another on a created calculator, some of  *)
(* which end in an exception                                               *)
(***************************************************************************)
\* two queries that succeed, one whose race is outside the tables, one whose
\* categories index past the predictor table, one whose ages are refused
SequenceQueries ==
    { Params(45, 60, 2, 1, 1, 1, 1, 1, 1),
      Params(55, 60, 0, 0, 0, 0, 0, 99, 8),
      Params(45, 60, 0, 0, 0, 0, 0, 99, 13),
      Params(55, 60, 3, 0, 0, 0, 0, 99, 1),
      Params(60, 60, 0, 0, 0, 0, 0, 99, 1) }

CallInSequence ==
    /\ ncalls < MaxCalls
    /\ \E p \in SequenceQueries :
          \E op \in {"calculate_full_risk", "calculate_absolute_risk",
                     "calculate_average_risk"} :
              \E out \in {Dispatch(calc, op, p)} : Invoke(op, p, out)

NextSequence == CallInSequence

SpecSequence == InitCreated /\ [][NextSequence]_vars

\* the constant tables of a calculator
Tables(c) == <<c.t, c.rmu2, c.rlan2, c.bet2, c.rf2, c.is_initialized>>

\* C29: once initialize() has returned no sequence of calculations,
\* successful or failing, changes the age boundaries t, the tables rmu2,
\* rlan2, bet2 and rf2 or the is_initialized flag; the age boundaries stay
\* the 15 strictly increasing values 20, 25, ..., 90
C29_TablesNeverChange ==
    /\ Tables(calc) = Tables(create_calculator)
    /\ calc.is_initialized
    /\ DOMAIN calc.t = 0..14
    /\ \A i \in 0..14 : calc.t[i] = 20 + 5 * i
    /\ \A i \in 0..13 : calc.t[i] < calc.t[i + 1]

\* a call that raised after writing the scratch arrays, then a call that
\* succeeded
C29_Witness ==
    /\ Len(call) = 2
    /\ call[1].status = "IndexError"
    /\ ~call[1].untouched
    /\ call[2].status = "ok"
    /\ ~call[2].untouched

(***************************************************************************)
(* SpecQuestionnaire: what reaches the pattern indexer for a questionnaire *)
(* within the field constraints of PatientQuestionnaire                    *)
(***************************************************************************)
QuestionnaireAges == {35, 50, 85}

\* answers at the ends of the field ranges and at the mapper's thresholds
QuestionnaireDomain ==
    {Questionnaire(age, a[1], a[2], ever, num, hyp, men, fb, rel) :
        age \in QuestionnaireAges, a \in RaceAnswers, ever \in Answers,
        num \in {<<>>, <<1>>, <<30>>}, hyp \in {"yes", "unknown"},
        men \in {7, 12, 14, 17},
        fb \in {<<>>, <<10>>, <<20>>, <<25>>, <<30>>, <<55>>},
        rel \in {0, 1, 2, 10}}

\* a _calculate_risk call followed to lines 563-564: the categories the
\* pattern index is computed from, the index and the race code
IndexedCall(c, risk_index, params) ==
    With(RunTo([c |-> c, f |-> calculate_risk_api(risk_index, params)], "predictors"),
         LAMBDA x :
            With(AverageOverride(x.f),
                 LAMBDA g :
                    [ pc |-> x.f.pc, risk_index |-> risk_index,
                      validated |-> validate(params),
                      categories |-> Categories(g), irace |-> g.irace,
                      ilev |-> IndexOf(Categories(g)) ]))

\* the four _calculate_risk calls of a request: absolute and average mode of
\* the 5-year and of the lifetime calculate_full_risk
ApplyQuestionnaire ==
    /\ probe.op = "none"
    /\ svc.op = "none"
    /\ \E q \in QuestionnaireDomain :
          \E five \in {questionnaire_to_gail_input(q)} :
              \E life \in {[five EXCEPT !.projection_age = LifetimeProjection(q.age)]} :
                  probe' = [ op |-> "questionnaire", questionnaire |-> q,
                             gail_input |-> five,
                             calls |-> << IndexedCall(calc, 1, five),
                                          IndexedCall(calc, 2, five),
                                          IndexedCall(calc, 1, life),
                                          IndexedCall(calc, 2, life) >> ]
    /\ UNCHANGED <<calc, call, ncalls, threads, svc>>

NextQuestionnaire == ApplyQuestionnaire \/ ServeRequest

SpecQuestionnaire == InitCreated /\ [][NextQuestionnaire]_vars

\* the categories are within their cardinalities
WithinCardinalities(x) ==
    /\ x[1] \in 0..1
    /\ x[2] \in 0..2
    /\ x[3] \in 0..2
    /\ x[4] \in 0..3
    /\ x[5] \in 0..2

\* C30: for every questionnaire within the field constraints the categories
\* that reach the pattern indexer are within their cardinalities, the
\* pattern index is in 1..216 and the race code in 1..12, in the 5-year and
\* the lifetime call and in absolute and average mode; the requests served in
\* full end without an exception
C30_IndexerInputsInRange ==
    /\ probe.op = "questionnaire" =>
          \A n \in 1..4 :
              LET k == probe.calls[n]
              IN  /\ k.validated
                  /\ k.pc = "predictors"
                  /\ WithinCardinalities(k.categories)
                  /\ k.ilev \in 1..NumCovPattInGailModel
                  /\ k.irace \in 1..12
    /\ svc.op = "calculate_risk" =>
          /\ svc.status = "ok"
          /\ \A n \in 1..Len(svc.engine_calls) :
                \A m \in 1..Len(svc.engine_calls[n].frames) :
                    LET f == svc.engine_calls[n].frames[m]
                    IN  /\ f.pc = "done"
                        /\ f.ilev \in 1..NumCovPattInGailModel
                        /\ f.irace \in 1..12

\* age 85 with every answer at its highest category: the African-American
\* questionnaire with menarche at 7 is recoded, the index stays in range
C30_Witness ==
    /\ probe.op = "questionnaire"
    /\ probe.questionnaire.age = 85
    /\ probe.questionnaire.race = 2
    /\ probe.questionnaire.age_at_menarche = 7
    /\ probe.questionnaire.age_at_first_birth = <<55>>
    /\ probe.questionnaire.num_first_degree_relatives = 10
    /\ probe.questionnaire.number_of_biopsies = <<30>>
    /\ probe.questionnaire.ever_had_biopsy = "yes"
    /\ probe.gail_input.projection_age = 90
    /\ probe.calls[1].categories = <<1, 1, 2, 0, 2>>
    /\ probe.calls[3].ilev = 171
====
